---------------------------- MODULE Spec2Model ----------------------------
(***************************************************************************)
(* Model of hypermill_nctools_html_exporter: the heading-driven parser of   *)
(* parse_html.py (parse_nctools_html and its helpers).                      *)
(*                                                                         *)
(* Texts are TLA+ strings, read character by character with SubSeq.  The    *)
(* module is ASCII, so every Japanese character of the source is written    *)
(* as ONE stand-in ASCII character that occurs nowhere else in the texts    *)
(* of the model (the overlaps between the patterns are kept):               *)
(*     U+30C4 (tsu) -> #    U+30FC (long mark) -> ~   U+30EB (ru) -> &      *)
(*     U+5DE5 (kou) -> %    U+5177 (gu)        -> $   U+30DB (ho) -> @      *)
(*     U+30C0 (da)  -> ^    U+30B5 (sa)        -> !   U+30D6 (bu) -> |      *)
(* Japanese table labels, which the code only compares whole, are written   *)
(* in romaji.  Japanese warning texts are written in English.  In the file  *)
(* names given to sanitize_filename every character stands for itself.      *)
(***************************************************************************)
EXTENDS Integers, Sequences, FiniteSets, TLC

\* pages .. errors are the state of parse_nctools_html; call is the frame
\* of one call of an export function of core.py with the temporary directory
\* it writes to, gui the state of the window of apps/gui.py
VARIABLES pages, pc, idx, objs, current, records, errors, call, gui

vars == <<pages, pc, idx, objs, current, records, errors, call, gui>>

\* no export function has been called
NoCall == [pc |-> "idle"]

\* no window is open
NoGui == [open |-> FALSE]

\* the parser is run on its own
ParserOnly == call = NoCall /\ gui = NoGui

(***************************************************************************)
(* Bounds of the model.                                                     *)
(***************************************************************************)
MaxPages == 3

MaxRows == 3

\* the longest length text put together from the characters of LengthChars
MaxLen == 4

(***************************************************************************)
(* Characters and strings.                                                  *)
(***************************************************************************)
CharAt(s, i) == SubSeq(s, i, i)

InClass(c, cls) == \E i \in 1..Len(cls) : CharAt(cls, i) = c

\* \s of the re module, as far as the texts of the model go
WS_CHARS == " \t"

\* \d of the re module, as far as the texts of the model go
DIGIT_CHARS == "0123456789"

IsSpace(c) == InClass(c, WS_CHARS)

\* the index of the first character of s[lo..] that is no whitespace
\* (Len(s) + 1 if there is none)
FirstNonSpace(s, lo) ==
    CHOOSE i \in lo..(Len(s) + 1) :
        /\ i = Len(s) + 1 \/ ~IsSpace(CharAt(s, i))
        /\ \A j \in lo..(i - 1) : IsSpace(CharAt(s, j))

\* the index of the last character of s that is no whitespace (0 if none)
LastNonSpace(s) ==
    CHOOSE i \in 0..Len(s) :
        /\ i = 0 \/ ~IsSpace(CharAt(s, i))
        /\ \A j \in (i + 1)..Len(s) : IsSpace(CharAt(s, j))

\* str.strip()
Strip(s) == SubSeq(s, FirstNonSpace(s, 1), LastNonSpace(s))

\* the texts F(s, lo), ..., F(s, hi) joined, built by halves
RECURSIVE JoinChars(_, _, _, _)
JoinChars(F(_, _), s, lo, hi) ==
    IF lo > hi THEN ""
    ELSE IF lo = hi THEN F(s, lo)
    ELSE JoinChars(F, s, lo, (lo + hi) \div 2) \o JoinChars(F, s, ((lo + hi) \div 2) + 1, hi)

\* the texts F(s, 1), ..., F(s, Len(s)) joined: s itself when F changes no
\* character
MapChars(F(_, _), s) ==
    IF \A i \in 1..Len(s) : F(s, i) = CharAt(s, i) THEN s
    ELSE JoinChars(F, s, 1, Len(s))

\* what _WS.sub(" ", s) makes of character i: a run of whitespace becomes
\* one space
CollapsedChar(s, i) ==
    IF ~IsSpace(CharAt(s, i)) THEN CharAt(s, i)
    ELSE IF i > 1 /\ IsSpace(CharAt(s, i - 1)) THEN "" ELSE " "

CollapseWs(s) == MapChars(CollapsedChar, s)

clean_text(s) == CollapseWs(Strip(s))

UPPER_CHARS == "ABCDEFGHIJKLMNOPQRSTUVWXYZ"

LOWER_CHARS == "abcdefghijklmnopqrstuvwxyz"

LowerChar(s, i) ==
    IF InClass(CharAt(s, i), UPPER_CHARS)
    THEN CharAt(LOWER_CHARS, CHOOSE j \in 1..26 : CharAt(UPPER_CHARS, j) = CharAt(s, i))
    ELSE CharAt(s, i)

\* str.lower()
Lower(s) == MapChars(LowerChar, s)

\* str.replace(",", "")
NoComma(s, i) == IF CharAt(s, i) = "," THEN "" ELSE CharAt(s, i)

RemoveCommas(s) == MapChars(NoComma, s)

DigitVal(c) == (CHOOSE i \in 1..10 : CharAt(DIGIT_CHARS, i) = c) - 1

\* the value of a string of decimal digits
RECURSIVE DigitsToInt(_)
DigitsToInt(s) ==
    IF Len(s) = 0 THEN 0
    ELSE 10 * DigitsToInt(SubSeq(s, 1, Len(s) - 1)) + DigitVal(CharAt(s, Len(s)))

\* str(n) for an integer n >= 0
RECURSIVE NatToStr(_)
NatToStr(n) ==
    IF n < 10 THEN CharAt(DIGIT_CHARS, n + 1)
    ELSE NatToStr(n \div 10) \o CharAt(DIGIT_CHARS, (n % 10) + 1)

\* str(n)
IntToStr(n) == IF n < 0 THEN "-" \o NatToStr(-n) ELSE NatToStr(n)

(***************************************************************************)
(* Regular expressions, matched as the backtracking matcher of re does: a   *)
(* pattern is a sequence of items, tried left to right; a greedy item       *)
(* tries its longest run first, a lazy item its shortest; search takes the  *)
(* leftmost start.  Items:                                                  *)
(*   [t |-> "lit", s]                     the text s                        *)
(*   [t |-> "rep", cls, min, max, greedy, g]                                *)
(*        min..max characters of class cls ("" is '.'; max -1 is no bound), *)
(*        captured as group g when g > 0                                    *)
(*   [t |-> "opt", sub]                   (?:sub)?                          *)
(*   [t |-> "end"]                        $                                 *)
(***************************************************************************)
NoMatch == [ok |-> FALSE, start |-> 0, end |-> 0, caps |-> <<"", "">>]

Lit(s) == [t |-> "lit", s |-> s]

Rep(cls, min, max, greedy, g) ==
    [t |-> "rep", cls |-> cls, min |-> min, max |-> max, greedy |-> greedy, g |-> g]

EndOfText == [t |-> "end"]

ClassHas(cls, c) == cls = "" \/ InClass(c, cls)

\* the longest run of cls characters at pos, at most max long (max -1: any)
RunLen(s, pos, cls, max) ==
    LET last == IF max < 0 \/ pos + max - 1 > Len(s) THEN Len(s) ELSE pos + max - 1
    IN  (CHOOSE i \in pos..(last + 1) :
            /\ i = last + 1 \/ ~ClassHas(cls, CharAt(s, i))
            /\ \A j \in pos..(i - 1) : ClassHas(cls, CharAt(s, j))) - pos

\* what may follow item k of pat at pos, the first tried first: each is
\* [pat, k, pos, g, cap], the pattern and the place to go on with and the
\* text captured for group g
Alternatives(pat, k, s, pos) ==
    LET it == pat[k]
        go(n, g) == [pat |-> pat, k |-> k + 1, pos |-> pos + n, g |-> g,
                     cap |-> SubSeq(s, pos, pos + n - 1)]
    IN  CASE it.t = "lit" ->
               IF pos + Len(it.s) - 1 <= Len(s)
                  /\ SubSeq(s, pos, pos + Len(it.s) - 1) = it.s
               THEN <<go(Len(it.s), 0)>>
               ELSE <<>>
          [] it.t = "end" ->
               IF pos = Len(s) + 1 THEN <<go(0, 0)>> ELSE <<>>
          [] it.t = "rep" ->
               LET run == RunLen(s, pos, it.cls, it.max) IN
               IF run < it.min THEN <<>>
               ELSE [i \in 1..(run - it.min + 1) |->
                       go(IF it.greedy THEN run - i + 1 ELSE it.min + i - 1, it.g)]
          [] it.t = "opt" ->
               <<[pat |-> it.sub \o SubSeq(pat, k + 1, Len(pat)), k |-> 1,
                  pos |-> pos, g |-> 0, cap |-> ""],
                 go(0, 0)>>

\* the match r of the rest of the pattern after the alternative alt
Captured(alt, r) == IF alt.g > 0 THEN [r EXCEPT !.caps[alt.g] = alt.cap] ELSE r

RECURSIVE MatchAt(_, _, _, _)
\* the first of the alternatives alts[i..] after which the rest of the
\* pattern matches
RECURSIVE FirstMatch(_, _, _)
FirstMatch(alts, i, s) ==
    IF i > Len(alts) THEN NoMatch
    ELSE LET r == MatchAt(alts[i].pat, alts[i].k, s, alts[i].pos) IN
         IF r.ok THEN Captured(alts[i], r) ELSE FirstMatch(alts, i + 1, s)

MatchAt(pat, k, s, pos) ==
    IF k > Len(pat) THEN [ok |-> TRUE, start |-> 0, end |-> pos, caps |-> <<"", "">>]
    ELSE FirstMatch(Alternatives(pat, k, s, pos), 1, s)

\* the first place from pos on where a match of pat can start: a pattern with
\* a leading literal starts where the literal stands (Len(s) + 2: nowhere)
NextStart(pat, s, pos) ==
    IF pat[1].t # "lit" THEN pos
    ELSE IF \E i \in pos..(Len(s) - Len(pat[1].s) + 1) :
                SubSeq(s, i, i + Len(pat[1].s) - 1) = pat[1].s
    THEN CHOOSE i \in pos..(Len(s) - Len(pat[1].s) + 1) :
            /\ SubSeq(s, i, i + Len(pat[1].s) - 1) = pat[1].s
            /\ \A j \in pos..(i - 1) : SubSeq(s, j, j + Len(pat[1].s) - 1) # pat[1].s
    ELSE Len(s) + 2

\* pattern.search(text): the match at the first place that has one
RECURSIVE SearchFrom(_, _, _)
SearchFrom(pat, s, pos) ==
    IF pos > Len(s) + 1 THEN NoMatch
    ELSE LET r == MatchAt(pat, 1, s, pos) IN
         IF r.ok THEN [r EXCEPT !.start = pos]
         ELSE SearchFrom(pat, s, NextStart(pat, s, pos + 1))

Search(pat, s) == SearchFrom(pat, s, NextStart(pat, s, 1))

\* m.group(0)
Group0(m, s) == SubSeq(s, m.start, m.end - 1)

\* cls*  and  (cls+) / (cls+?) captured as group g
Star(cls) == Rep(cls, 0, -1, TRUE, 0)

Plus(cls, g) == Rep(cls, 1, -1, TRUE, g)

LazyPlus(cls, g) == Rep(cls, 1, -1, FALSE, g)

(***************************************************************************)
(* The h3 patterns (JA/EN), parse_html.py 19-30.                            *)
(***************************************************************************)
\* NC<tsu><long><ru>(N):
H3_NCTOOL_JA == "NC#~&(N):"

H3_NCTOOL_EN == "NC-Tool:"

\* <kou><gu>:
H3_TOOL_JA == "%$:"

H3_TOOL_EN == "Tool:"

\* <ho><ru><da><long>:
H3_HOLDER_JA == "@&^~:"

H3_HOLDER_EN == "Holder:"

\* <sa><bu><ho><ru><da><long>:
H3_SUBHOLDER_JA == "!|@&^~:"

H3_EXTENSION_EN == "Extension:"

\* <lit>(.+?)\s*\((\d+)\)\s*$
NcToolPattern(lit) ==
    <<Lit(lit), LazyPlus("", 1), Star(WS_CHARS), Lit("("), Plus(DIGIT_CHARS, 2),
      Lit(")"), Star(WS_CHARS), EndOfText>>

\* <lit>\s*(.+?)\s*\((.+?)\)\s*$
ToolPattern(lit) ==
    <<Lit(lit), Star(WS_CHARS), LazyPlus("", 1), Star(WS_CHARS), Lit("("),
      LazyPlus("", 2), Lit(")"), Star(WS_CHARS), EndOfText>>

\* <lit>\s*(.+)\s*$
NamePattern(lit) ==
    <<Lit(lit), Star(WS_CHARS), Plus("", 1), Star(WS_CHARS), EndOfText>>

RE_NCTOOL_H3_JA == NcToolPattern(H3_NCTOOL_JA)

RE_NCTOOL_H3_EN == NcToolPattern(H3_NCTOOL_EN)

RE_TOOL_H3_JA == ToolPattern(H3_TOOL_JA)

RE_TOOL_H3_EN == ToolPattern(H3_TOOL_EN)

RE_HOLDER_H3_JA == NamePattern(H3_HOLDER_JA)

RE_HOLDER_H3_EN == NamePattern(H3_HOLDER_EN)

RE_SUBHOLDER_H3_JA == NamePattern(H3_SUBHOLDER_JA)

RE_EXTENSION_H3_EN == NamePattern(H3_EXTENSION_EN)

\* _match_any: the first pattern of the list that is found in the text
RECURSIVE match_any(_, _)
match_any(patterns, text) ==
    IF patterns = <<>> THEN NoMatch
    ELSE LET m == Search(Head(patterns), text) IN
         IF m.ok THEN m ELSE match_any(Tail(patterns), text)

(***************************************************************************)
(* Key normalization, parse_html.py 36-96.  A dict is a function from its   *)
(* keys; the Japanese labels are written in romaji.                         *)
(***************************************************************************)
EmptyDict == [k \in {} |-> ""]

DictGet(d, k, default) == IF k \in DOMAIN d THEN d[k] ELSE default

DictPut(d, k, v) == [x \in (DOMAIN d) \cup {k} |-> IF x = k THEN v ELSE d[x]]

GRID_HEADER_MAP ==
    [x \in {"kappuringu shurui", "Coupling type", "meishou", "Name",
            "zenchou", "Reach"} |->
       CASE x \in {"kappuringu shurui", "Coupling type"} -> "coupling_type"
         [] x \in {"meishou", "Name"} -> "name"
         [] x \in {"zenchou", "Reach"} -> "reach"]

KV_KEY_PAIRS ==
    << <<"NC#~& komento", "NC-Tool comment", "nctool_comment">>,
       <<"@&^~ komento", "Holder comment", "holder_comment">>,
       <<"chokkei", "Diameter", "diameter">>,
       <<"koonaa hankei", "Corner radius", "corner_radius">>,
       <<"hasuu", "Cutting edges", "cutting_edges">>,
       <<"sessaku nagasa (ap)", "Cutting length", "cutting_length">>,
       <<"shanku chokkei", "Shank diameter", "shank_diameter">>,
       <<"mentori nagasa", "Chamfer length", "chamfer_length">>,
       <<"sentan nagasa", "Tip length", "tip_length">>,
       <<"teepaa kakudo", "Cone angle", "cone_angle">>,
       <<"supindoru kaiten houkou", "Spindle orientation", "spindle_orientation">> >>

KV_KEY_MAP ==
    [x \in {KV_KEY_PAIRS[i][j] : i \in 1..Len(KV_KEY_PAIRS), j \in 1..2} |->
       KV_KEY_PAIRS[CHOOSE i \in 1..Len(KV_KEY_PAIRS) :
                       x \in {KV_KEY_PAIRS[i][1], KV_KEY_PAIRS[i][2]}][3]]

norm_grid_header(h) == DictGet(GRID_HEADER_MAP, clean_text(h), clean_text(h))

\* the lookup gone wrong: the label is looked up as it is written
norm_kv_key_raw(k) == DictGet(KV_KEY_MAP, k, k)

norm_kv_key(k) == DictGet(KV_KEY_MAP, clean_text(k), clean_text(k))

(***************************************************************************)
(* Table readers, parse_html.py 99-134.  A table is [attrs, rows]: attrs    *)
(* the attributes of the element, rows the td texts of its tr elements.     *)
(***************************************************************************)
CleanCells(tr) == [i \in 1..Len(tr) |-> clean_text(tr[i])]

\* the assignment gone wrong: a pair is stored whether it has a key or not
KvPut_keyless(d, k, v) == DictPut(d, norm_kv_key(k), v)

\* d[_norm_kv_key(k)] = v, if k
KvPut(d, k, v) == IF k # "" THEN DictPut(d, norm_kv_key(k), v) ELSE d

\* the body of the loop of _parse_kv_table for the cleaned td texts of one tr
KvRow(d, tds) ==
    IF Len(tds) = 2 THEN KvPut(d, tds[1], tds[2])
    ELSE IF Len(tds) = 4 THEN KvPut(KvPut(d, tds[1], tds[2]), tds[3], tds[4])
    ELSE d

RECURSIVE KvRows(_, _)
KvRows(d, trs) ==
    IF trs = <<>> THEN d ELSE KvRows(KvRow(d, CleanCells(Head(trs))), Tail(trs))

parse_kv_table(table) == KvRows(EmptyDict, table.rows)

\* {header[i]: (vals[i] if i < len(vals) else "") for i in range(len(header))},
\* built up to index n: a later column of the same key replaces an earlier one
RECURSIVE GridRowDict(_, _, _)
GridRowDict(header, vals, n) ==
    IF n = 0 THEN EmptyDict
    ELSE DictPut(GridRowDict(header, vals, n - 1), header[n],
                 IF n <= Len(vals) THEN vals[n] ELSE "")

\* the body gone wrong: a row of empty cells is kept
GridRow_all(header, vals) == <<GridRowDict(header, vals, Len(header))>>

\* the body of the loop of _parse_grid_table for the cleaned td texts of
\* one tr: a sequence of at most one row dict
GridRow(header, vals) ==
    IF \A i \in 1..Len(vals) : vals[i] = "" THEN <<>>
    ELSE <<GridRowDict(header, vals, Len(header))>>

RECURSIVE GridRows(_, _)
GridRows(header, trs) ==
    IF trs = <<>> THEN <<>>
    ELSE GridRow(header, CleanCells(Head(trs))) \o GridRows(header, Tail(trs))

GridHeader(tr) == [i \in 1..Len(tr) |-> norm_grid_header(tr[i])]

parse_grid_table(table) ==
    IF table.rows = <<>> THEN <<>>
    ELSE GridRows(GridHeader(table.rows[1]), Tail(table.rows))

(***************************************************************************)
(* Numbers, parse_html.py 137-170.  A float is [k |-> "none"] (None),       *)
(* [k |-> "inf"] (a numeral beyond the range of a double) or                *)
(* [k |-> "num", v |-> n]: the number n / FScale.  The texts of the model   *)
(* have no digit but 0 beyond FracDigits decimals and none above 4 in the   *)
(* fourth place (str.format rounds there, a tie by the binary double).      *)
(***************************************************************************)
FracDigits == 3

RECURSIVE Pow10(_)
Pow10(n) == IF n = 0 THEN 1 ELSE 10 * Pow10(n - 1)

FScale == Pow10(FracDigits)

\* the largest double is 1.797...e308: a numeral of more integer digits is inf
MaxDoubleDigits == 309

FNone == [k |-> "none"]

FInf == [k |-> "inf"]

FNum(n) == [k |-> "num", v |-> n]

\* the full-width characters of str.maketrans, written as stand-ins:
\* full-width 0..9 . - +
FULLWIDTH_CHARS == "{}[]<>?*`';_="

HALFWIDTH_CHARS == "0123456789.-+"

TransChar(s, i) ==
    IF InClass(CharAt(s, i), FULLWIDTH_CHARS)
    THEN CharAt(HALFWIDTH_CHARS,
                CHOOSE j \in 1..Len(FULLWIDTH_CHARS) :
                    CharAt(FULLWIDTH_CHARS, j) = CharAt(s, i))
    ELSE CharAt(s, i)

\* s.translate(trans)
Translate(s) == MapChars(TransChar, s)

\* [-+]?\d+(?:\.\d+)?
RE_NUMERAL ==
    <<Rep("-+", 0, 1, TRUE, 0), Plus(DIGIT_CHARS, 1),
      [t |-> "opt", sub |-> <<Lit("."), Plus(DIGIT_CHARS, 2)>>]>>

\* the digits of an integer without its leading zeros (the last digit stays)
StripLeadingZeros(s) ==
    SubSeq(s, CHOOSE i \in 1..Len(s) :
                 /\ i = Len(s) \/ CharAt(s, i) # "0"
                 /\ \A j \in 1..(i - 1) : CharAt(s, j) = "0",
           Len(s))

\* the digits of a fraction, cut or filled with zeros to FracDigits places
FracPad(s) ==
    IF Len(s) >= FracDigits THEN SubSeq(s, 1, FracDigits)
    ELSE s \o SubSeq("000000000", 1, FracDigits - Len(s))

\* float(m.group(0)) for a match m of RE_NUMERAL in s
PyFloat(s, m) ==
    IF Len(StripLeadingZeros(m.caps[1])) > MaxDoubleDigits THEN FInf
    ELSE FNum((IF CharAt(s, m.start) = "-" THEN -1 ELSE 1)
              * (DigitsToInt(StripLeadingZeros(m.caps[1])) * FScale
                 + DigitsToInt(FracPad(m.caps[2]))))

\* parse_html.py 153-159
numeral_of(s, m) == IF ~m.ok THEN FNone ELSE PyFloat(s, m)

\* the text gone wrong: the thousands separators stay
numeral_text_separated(s) == Translate(clean_text(s))

\* parse_html.py 144-151
numeral_text(s) == RemoveCommas(Translate(clean_text(s)))

find_numeral(s1) == numeral_of(s1, Search(RE_NUMERAL, s1))

to_float_mm(s) == IF s = "" THEN FNone ELSE find_numeral(numeral_text(s))

\* str.rstrip(chars)
RStripChars(s, chars) ==
    SubSeq(s, 1, CHOOSE i \in 0..Len(s) :
                    /\ i = 0 \/ ~InClass(CharAt(s, i), chars)
                    /\ \A j \in (i + 1)..Len(s) : InClass(CharAt(s, j), chars))

\* f"{x:.3f}" for the number v / FScale
Fixed3(v) ==
    LET mag == IF v < 0 THEN -v ELSE v
        r   == (mag + (FScale \div 2000)) \div (FScale \div 1000)
        fp  == NatToStr(1000 + (r % 1000))
    IN  (IF v < 0 THEN "-" ELSE "") \o NatToStr(r \div 1000) \o "." \o SubSeq(fp, 2, 4)

\* round(x) raises OverflowError for an infinite x
fmt_mm_raises(x) == x.k = "inf"

\* the rendering gone wrong: the trailing zeros of the decimals stay
fmt_mm_padded(x) ==
    IF x.k = "none" THEN ""
    ELSE IF x.v % FScale = 0 THEN IntToStr(x.v \div FScale)
         ELSE Fixed3(x.v)

\* _fmt_mm for an x it does not raise on
fmt_mm(x) ==
    IF x.k = "none" THEN ""
    ELSE IF x.v % FScale = 0 THEN IntToStr(x.v \div FScale)
         ELSE RStripChars(RStripChars(Fixed3(x.v), "0"), ".")

\* a + b of two floats that are not None
FAdd(a, b) == IF a.k = "inf" \/ b.k = "inf" THEN FInf ELSE FNum(a.v + b.v)

(***************************************************************************)
(* NcToolRecord, model.py 9-66.  An Optional field is a sequence of at most *)
(* one element: <<>> is None.                                               *)
(***************************************************************************)
\* str(html_path) of the document being parsed
HTML_PATH == "nctools.html"

NcToolRecord(source_html_path) ==
    [nctool_no |-> <<>>, nctool_name |-> "", nctool_comment |-> "",
     holder_name |-> "", holder_length |-> "", tool_name |-> "", tool_length |-> "",
     extensions_str |-> "",
     ext_overhang_mm |-> "", tool_overhang_mm |-> "", overhang_mm |-> "",
     total_length_mm |-> "",
     image_rel_src |-> "", image_abs_path |-> <<>>, image_cached_path |-> <<>>,
     tool_type |-> "", tool_page_name |-> "",
     tool_diameter_mm |-> "", tool_corner_radius_mm |-> "", tool_flutes |-> "",
     tool_cut_length_ap_mm |-> "", tool_shank_d_mm |-> "", tool_chamfer_len_mm |-> "",
     tool_tip_len_mm |-> "", tool_taper_angle_deg |-> "", spindle_rotation |-> "",
     cond_S_n |-> "", cond_FX |-> "", cond_FZ |-> "", cond_Fr |-> "",
     cond_ap |-> "", cond_ae |-> "",
     holder_page_name |-> "", holder_comment |-> "",
     source_html_path |-> source_html_path,
     warnings |-> <<>>]

\* the warning texts of parse_html.py (Japanese in the source)
W_EMPTY_NAME == "nctool_name was empty (possible parse failure)"

W_NCT_TABLES == "NC tool page: not enough tables"

W_NO_COUPLING == "NC tool page: component table (border=1) not found"

W_NO_IMAGE == "NC tool page: image src not found"

W_NO_TOOL_TABLE == "tool page: dimension table not found"

W_NO_COND_TABLE == "tool page: condition table (border=1) not found"

W_NO_HOLDER_TABLE == "holder page: table not found"

W_SUBHOLDER == "subholder page detected: "

W_EXTENSION == "Extension page detected: "

UNKNOWN_NCTOOL == "(UNKNOWN_NCTOOL)"

Warn(rec, w) == [rec EXCEPT !.warnings = Append(@, w)]

(***************************************************************************)
(* A page is [h3, tables, imgs]: h3 the text of its first h3 element        *)
(* (Optional), tables its table elements and imgs the attributes of its     *)
(* img elements, both in document order.                                    *)
(***************************************************************************)
\* h3 = clean_text(h3_el.get_text(" ", strip=True)) if h3_el else ""
H3Text(p) == IF p.h3 = <<>> THEN "" ELSE clean_text(p.h3[1])

\* t.get("border") == "1"
IsBordered(t) == "border" \in DOMAIN t.attrs /\ t.attrs["border"] = "1"

\* the first table of the list that is bordered, as an Optional
RECURSIVE FirstBordered(_)
FirstBordered(tables) ==
    IF tables = <<>> THEN <<>>
    ELSE IF IsBordered(Head(tables)) THEN <<Head(tables)>>
         ELSE FirstBordered(Tail(tables))

\* (r.get(key, "") or "")
RowGet(r, key) == DictGet(r, key, "")

\* the extension kinds gone wrong: only the spelling 'extension' is known
IsExtKind_strict(kind) == kind = "extension"

IsExtKind(kind) == kind \in {"extension", "subholder", "ext"}

(***************************************************************************)
(* _build_extensions_str_from_coupling_rows, parse_html.py 173-192          *)
(***************************************************************************)
\* the entry of one row gone wrong: an extension without a name is left out
ext_entry_named(kind, name, ln) ==
    IF ~IsExtKind(kind) \/ name = "" THEN <<>>
    ELSE IF ln # "" THEN <<name \o "(L=" \o ln \o ")">>
    ELSE <<name>>

\* the entry of one row, parse_html.py 183-191: a sequence of at most one text
ext_entry(kind, name, ln) ==
    IF ~IsExtKind(kind) \/ (name = "" /\ ln = "") THEN <<>>
    ELSE IF ln # "" THEN <<name \o "(L=" \o ln \o ")">>
    ELSE <<name>>

RECURSIVE ExtEntries(_)
ExtEntries(rows) ==
    IF rows = <<>> THEN <<>>
    ELSE ext_entry(Lower(Strip(RowGet(Head(rows), "coupling_type"))),
                   Strip(RowGet(Head(rows), "name")),
                   Strip(RowGet(Head(rows), "reach")))
         \o ExtEntries(Tail(rows))

\* sep.join(items)
RECURSIVE Join(_, _)
Join(sep, items) ==
    IF items = <<>> THEN ""
    ELSE IF Len(items) = 1 THEN items[1]
         ELSE items[1] \o sep \o Join(sep, Tail(items))

build_extensions_str_from_coupling_rows(rows) ==
    Join(" / ", SelectSeq(ExtEntries(rows), LAMBDA e : e # ""))

(***************************************************************************)
(* The page handlers of parse_nctools_html.  A handler gives               *)
(* [raised, rec]: whether an exception left it, and the record as it then   *)
(* is.                                                                      *)
(***************************************************************************)
Returned(rec) == [raised |-> FALSE, rec |-> rec]

Raised(rec) == [raised |-> TRUE, rec |-> rec]

\* the branches gone wrong: a tool row starts the sum of the extensions anew
coupling_kind_reset(st, kind, name, ln_str, ln) ==
    IF kind = "holder"
    THEN [st EXCEPT !.rec.holder_name = name, !.rec.holder_length = ln_str,
                    !.holder_len = ln]
    ELSE IF kind = "tool"
    THEN [st EXCEPT !.rec.tool_name = name, !.rec.tool_length = ln_str,
                    !.tool_len = ln, !.ext_sum = FNum(0)]
    ELSE IF IsExtKind(kind)
    THEN [st EXCEPT !.ext_sum = IF ln.k # "none" THEN FAdd(@, ln) ELSE @,
                    !.ext_found = TRUE]
    ELSE st

\* the branches of the loop over the component rows, parse_html.py 280-293;
\* st is [rec, holder_len, tool_len, ext_sum, ext_found]
coupling_kind(st, kind, name, ln_str, ln) ==
    IF kind = "holder"
    THEN [st EXCEPT !.rec.holder_name = name, !.rec.holder_length = ln_str,
                    !.holder_len = ln]
    ELSE IF kind = "tool"
    THEN [st EXCEPT !.rec.tool_name = name, !.rec.tool_length = ln_str,
                    !.tool_len = ln]
    ELSE IF IsExtKind(kind)
    THEN [st EXCEPT !.ext_sum = IF ln.k # "none" THEN FAdd(@, ln) ELSE @,
                    !.ext_found = TRUE]
    ELSE st

\* the body of the loop over the component rows, parse_html.py 274-293
coupling_row(st, r) ==
    coupling_kind(st, Lower(Strip(RowGet(r, "coupling_type"))), RowGet(r, "name"),
                  RowGet(r, "reach"), to_float_mm(RowGet(r, "reach")))

RECURSIVE coupling_rows(_, _)
coupling_rows(st, rows) ==
    IF rows = <<>> THEN st ELSE coupling_rows(coupling_row(st, Head(rows)), Tail(rows))

\* overhang = (ext_sum + tool_len) if tool_len is not None else None
overhang_of(st) ==
    IF st.tool_len.k # "none" THEN FAdd(st.ext_sum, st.tool_len) ELSE FNone

\* parse_html.py 296-302: the derived fields, after the loop over the rows
derived_fields(st, extensions_str) ==
    IF st.ext_found /\ fmt_mm_raises(st.ext_sum)
    THEN Raised([st.rec EXCEPT !.extensions_str = extensions_str])
    ELSE IF st.tool_len.k # "none" /\ fmt_mm_raises(st.tool_len)
    THEN Raised([st.rec EXCEPT
                   !.extensions_str = extensions_str,
                   !.ext_overhang_mm = IF st.ext_found THEN fmt_mm(st.ext_sum) ELSE "0"])
    ELSE Returned([st.rec EXCEPT
                   !.extensions_str = extensions_str,
                   !.ext_overhang_mm = IF st.ext_found THEN fmt_mm(st.ext_sum) ELSE "0",
                   !.tool_overhang_mm =
                       IF st.tool_len.k # "none" THEN fmt_mm(st.tool_len) ELSE "",
                   !.overhang_mm =
                       IF overhang_of(st).k # "none" THEN fmt_mm(overhang_of(st)) ELSE ""])

\* parse_html.py 269-302 for the rows of the component table
component_fields(rec, rows) ==
    derived_fields(coupling_rows([rec |-> rec, holder_len |-> FNone, tool_len |-> FNone,
                                  ext_sum |-> FNum(0), ext_found |-> FALSE], rows),
                   build_extensions_str_from_coupling_rows(rows))

\* the component table gone wrong: without a table the derived fields are
\* computed from no rows
coupling_table_fields_always(rec, coupling_table) ==
    IF coupling_table # <<>>
    THEN component_fields(rec, parse_grid_table(coupling_table[1]))
    ELSE component_fields(Warn(rec, W_NO_COUPLING), <<>>)

\* parse_html.py 266-305: coupling_table is an Optional
coupling_table_fields(rec, coupling_table) ==
    IF coupling_table # <<>>
    THEN component_fields(rec, parse_grid_table(coupling_table[1]))
    ELSE Returned(Warn(rec, W_NO_COUPLING))

\* parse_html.py 251-257: the comment of the NC tool page
nctool_comment_fields(rec, nct_tables) ==
    IF Len(nct_tables) >= 2
    THEN [rec EXCEPT !.nctool_comment =
                       DictGet(parse_kv_table(nct_tables[2]), "nctool_comment", "")]
    ELSE Warn(rec, W_NCT_TABLES)

\* parse_html.py 307-312: img = p.find("img"); img and img.get("src")
image_fields(rec, p) ==
    IF p.imgs # <<>> /\ "src" \in DOMAIN p.imgs[1] /\ p.imgs[1]["src"] # ""
    THEN [rec EXCEPT !.image_rel_src = p.imgs[1]["src"]]
    ELSE Warn(rec, W_NO_IMAGE)

\* parse_html.py 247-249: the new record of an NC tool page matched by m_nct
new_record(m_nct) ==
    [NcToolRecord(HTML_PATH) EXCEPT
       !.nctool_name = clean_text(m_nct.caps[1]),
       !.nctool_no = <<DigitsToInt(m_nct.caps[2])>>]

\* parse_html.py 307-314, reached unless the component table raised
image_step(c, p) == IF c.raised THEN c ELSE Returned(image_fields(c.rec, p))

\* parse_html.py 247-314: the record of an NC tool page matched by m_nct
nctool_page(p, m_nct) ==
    image_step(coupling_table_fields(nctool_comment_fields(new_record(m_nct), p.tables),
                                     FirstBordered(p.tables)),
               p)

\* parse_html.py 332-340
tool_dims(rec, kv) ==
    [rec EXCEPT
       !.tool_diameter_mm = DictGet(kv, "diameter", ""),
       !.tool_corner_radius_mm = DictGet(kv, "corner_radius", ""),
       !.tool_flutes = DictGet(kv, "cutting_edges", ""),
       !.tool_cut_length_ap_mm = DictGet(kv, "cutting_length", ""),
       !.tool_shank_d_mm = DictGet(kv, "shank_diameter", ""),
       !.tool_chamfer_len_mm = DictGet(kv, "chamfer_length", ""),
       !.tool_tip_len_mm = DictGet(kv, "tip_length", ""),
       !.tool_taper_angle_deg = DictGet(kv, "cone_angle", ""),
       !.spindle_rotation = DictGet(kv, "spindle_orientation", "")]

\* parse_html.py 328-342
tool_dim_fields(rec, tool_tables) ==
    IF tool_tables # <<>> THEN tool_dims(rec, parse_kv_table(tool_tables[1]))
    ELSE Warn(rec, W_NO_TOOL_TABLE)

\* parse_html.py 352-360
tool_cond_row(rec, cond_rows) ==
    IF cond_rows # <<>>
    THEN [rec EXCEPT !.cond_S_n = DictGet(cond_rows[1], "S (n)", ""),
                     !.cond_FX = DictGet(cond_rows[1], "FX", ""),
                     !.cond_FZ = DictGet(cond_rows[1], "FZ", ""),
                     !.cond_Fr = DictGet(cond_rows[1], "Fr", ""),
                     !.cond_ap = DictGet(cond_rows[1], "ap", ""),
                     !.cond_ae = DictGet(cond_rows[1], "ae", "")]
    ELSE rec

\* parse_html.py 345-362: cond_table is an Optional
tool_cond_fields(rec, cond_table) ==
    IF cond_table # <<>> THEN tool_cond_row(rec, parse_grid_table(cond_table[1]))
    ELSE Warn(rec, W_NO_COND_TABLE)

\* parse_html.py 325-362: a tool page matched by m_tool
tool_page(rec, p, m_tool) ==
    tool_cond_fields(
        tool_dim_fields([rec EXCEPT !.tool_page_name = clean_text(m_tool.caps[1]),
                                    !.tool_type = clean_text(m_tool.caps[2])],
                        p.tables),
        IF p.tables = <<>> THEN <<>> ELSE FirstBordered(Tail(p.tables)))

\* the holder page gone wrong: the name of its heading replaces the holder
\* name taken from the component table
holder_page_named(rec, p, m_holder) ==
    IF p.tables # <<>>
    THEN [rec EXCEPT !.holder_page_name = clean_text(m_holder.caps[1]),
                     !.holder_name = clean_text(m_holder.caps[1]),
                     !.holder_comment =
                         DictGet(parse_kv_table(p.tables[1]), "holder_comment", "")]
    ELSE Warn([rec EXCEPT !.holder_page_name = clean_text(m_holder.caps[1]),
                          !.holder_name = clean_text(m_holder.caps[1])],
              W_NO_HOLDER_TABLE)

\* parse_html.py 371-377: a holder page matched by m_holder
holder_page(rec, p, m_holder) ==
    IF p.tables # <<>>
    THEN [rec EXCEPT !.holder_page_name = clean_text(m_holder.caps[1]),
                     !.holder_comment =
                         DictGet(parse_kv_table(p.tables[1]), "holder_comment", "")]
    ELSE Warn([rec EXCEPT !.holder_page_name = clean_text(m_holder.caps[1])],
              W_NO_HOLDER_TABLE)

\* parse_html.py 386-387: a subholder page (JA) matched by m_sub
subholder_page(rec, m_sub) == Warn(rec, W_SUBHOLDER \o clean_text(m_sub.caps[1]))

\* parse_html.py 392-393: an extension page (EN) matched by m_ext
extension_page(rec, m_ext) == Warn(rec, W_EXTENSION \o clean_text(m_ext.caps[1]))

\* finalize_current gone wrong: an empty name is left as it is
finalize_record_plain(rec) == rec

\* finalize_current, parse_html.py 226-234, on the record of current
finalize_record(rec) ==
    IF Strip(rec.nctool_name) = ""
    THEN Warn([rec EXCEPT !.nctool_name = UNKNOWN_NCTOOL], W_EMPTY_NAME)
    ELSE rec

(***************************************************************************)
(* The body of parse_nctools_html.  The records are objects: objs[id] is    *)
(* the NcToolRecord with reference id, current is the reference held by     *)
(* the variable current (0 is None) and records the list of references.     *)
(* A parser state st is [raised, objs, current, records, errors].           *)
(***************************************************************************)
\* finalize_current gone wrong: a record with an empty name is dropped
finalize_current_named(st) ==
    IF st.current = 0 THEN st
    ELSE IF Strip(st.objs[st.current].nctool_name) = "" THEN [st EXCEPT !.current = 0]
    ELSE [st EXCEPT !.objs[st.current] = finalize_record(@),
                    !.records = Append(@, st.current),
                    !.current = 0]

\* finalize_current gone wrong: the record is put at the head of the list
finalize_current_head(st) ==
    IF st.current = 0 THEN st
    ELSE [st EXCEPT !.objs[st.current] = finalize_record(@),
                    !.records = <<st.current>> \o @,
                    !.current = 0]

\* finalize_current, parse_html.py 226-234
finalize_current(st) ==
    IF st.current = 0 THEN st
    ELSE [st EXCEPT !.objs[st.current] = finalize_record(@),
                    !.records = Append(@, st.current),
                    !.current = 0]

\* which branch of the loop body a page takes, parse_html.py 243-396
M_nct(p) == match_any(<<RE_NCTOOL_H3_JA, RE_NCTOOL_H3_EN>>, H3Text(p))

M_tool(p) == match_any(<<RE_TOOL_H3_JA, RE_TOOL_H3_EN>>, H3Text(p))

M_holder(p) == match_any(<<RE_HOLDER_H3_JA, RE_HOLDER_H3_EN>>, H3Text(p))

M_sub(p) == Search(RE_SUBHOLDER_H3_JA, H3Text(p))

M_ext(p) == Search(RE_EXTENSION_H3_EN, H3Text(p))

\* open_record gone wrong: the new page takes over the object of the record
\* before it instead of a fresh one
open_record_reuse(st, out) ==
    IF st.objs = <<>>
    THEN [st EXCEPT !.objs = <<out.rec>>, !.current = 1, !.raised = out.raised]
    ELSE [st EXCEPT !.objs[Len(st.objs)] = out.rec,
                    !.current = Len(st.objs),
                    !.raised = out.raised]

\* parse_html.py 247-314: current becomes the new record
open_record(st, out) ==
    [st EXCEPT !.objs = Append(@, out.rec),
               !.current = Len(st.objs) + 1,
               !.raised = out.raised]

\* parse_html.py 244-314
nctool_branch(st, p) == open_record(finalize_current(st), nctool_page(p, M_nct(p)))

\* parse_html.py 323-364
tool_branch(st, p) ==
    [st EXCEPT !.objs[st.current] = tool_page(@, p, M_tool(p))]

\* parse_html.py 369-378
holder_branch(st, p) ==
    [st EXCEPT !.objs[st.current] = holder_page(@, p, M_holder(p))]

\* the branch gone wrong: the page is reported on the list of the document
subcomponent_branch_listed(st, p) ==
    IF M_sub(p).ok
    THEN [st EXCEPT !.errors = Append(@, W_SUBHOLDER \o clean_text(M_sub(p).caps[1]))]
    ELSE [st EXCEPT !.errors = Append(@, W_EXTENSION \o clean_text(M_ext(p).caps[1]))]

\* parse_html.py 384-394
subcomponent_branch(st, p) ==
    IF M_sub(p).ok
    THEN [st EXCEPT !.objs[st.current] = subholder_page(@, M_sub(p))]
    ELSE [st EXCEPT !.objs[st.current] = extension_page(@, M_ext(p))]

\* the loop body gone wrong: a page of no known kind is noted on the open record
page_step_strict(st, p) ==
    IF M_nct(p).ok THEN nctool_branch(st, p)
    ELSE IF st.current = 0 THEN st
    ELSE IF M_tool(p).ok THEN tool_branch(st, p)
    ELSE IF M_holder(p).ok THEN holder_branch(st, p)
    ELSE IF M_sub(p).ok \/ M_ext(p).ok THEN subcomponent_branch(st, p)
    ELSE [st EXCEPT !.objs[st.current] = Warn(@, "page of unknown kind")]

\* the loop body gone wrong: a page before the first NC tool page is reported
page_step_noisy(st, p) ==
    IF M_nct(p).ok THEN nctool_branch(st, p)
    ELSE IF st.current = 0 THEN [st EXCEPT !.errors = Append(@, "page outside of a record")]
    ELSE IF M_tool(p).ok THEN tool_branch(st, p)
    ELSE IF M_holder(p).ok THEN holder_branch(st, p)
    ELSE IF M_sub(p).ok \/ M_ext(p).ok THEN subcomponent_branch(st, p)
    ELSE st

\* the body of the loop over the pages, parse_html.py 236-396
page_step(st, p) ==
    IF M_nct(p).ok THEN nctool_branch(st, p)
    ELSE IF st.current = 0 THEN st
    ELSE IF M_tool(p).ok THEN tool_branch(st, p)
    ELSE IF M_holder(p).ok THEN holder_branch(st, p)
    ELSE IF M_sub(p).ok \/ M_ext(p).ok THEN subcomponent_branch(st, p)
    ELSE st

\* the loop of parse_html.py 236-396 from page i on; an exception ends it
RECURSIVE parse_pages(_, _, _)
parse_pages(st, ps, i) ==
    IF i > Len(ps) \/ st.raised THEN st
    ELSE parse_pages(page_step(st, ps[i]), ps, i + 1)

\* parse_nctools_html on the pages ps, parse_html.py 203-399: the state at
\* the return, or the one in which the exception leaves
parse_nctools_html(ps) ==
    LET st0 == [raised |-> FALSE, objs |-> <<>>, current |-> 0,
                records |-> <<>>, errors |-> <<>>]
        end == parse_pages(st0, ps, 1)
    IN  IF ps = <<>> THEN [st0 EXCEPT !.raised = TRUE]
        ELSE IF end.raised THEN end
        ELSE finalize_current(end)

(***************************************************************************)
(* The documents the model parses.                                          *)
(***************************************************************************)
NoAttrs == EmptyDict

Table(attrs, rows) == [attrs |-> attrs, rows |-> rows]

Page(h3, tables, imgs) == [h3 |-> h3, tables |-> tables, imgs |-> imgs]

\* the first table of a page (the title block of the report)
TitleTable == Table(NoAttrs, << <<"hyperMILL">> >>)

CommentTableEN == Table(NoAttrs, << <<"NC-Tool comment", "rough">> >>)

CommentTableJA == Table(NoAttrs, << <<"NC#~& komento", "rough">> >>)

GridHeaderEN == <<"Coupling type", "Name", "Reach">>

GridHeaderJA == <<"kappuringu shurui", "meishou", "zenchou">>

Bordered == [border |-> "1"]

CouplingRowsA == << <<"Holder", "H1", "80">>, <<"Extension", "S1", "25">>,
                    <<"Tool", "EM10", "40">> >>

ToolDimsEN == Table(NoAttrs, << <<"Diameter", "10", "Corner radius", "0.5">>,
                                <<"Cutting edges", "4">> >>)

ToolDimsJA == Table(NoAttrs, << <<"chokkei", "10", "koonaa hankei", "0.5">>,
                                <<"hasuu", "4">> >>)

CondTable == Table(Bordered, << <<"S (n)", "FX", "FZ">>, <<"8000", "1200", "300">> >>)

HolderTableEN == Table(NoAttrs, << <<"Holder comment", "BT40">> >>)

HolderTableJA == Table(NoAttrs, << <<"@&^~ komento", "BT40">> >>)

Img(src) == <<[src |-> src]>>

\* a numeral of 310 digits: float() makes it inf
RECURSIVE Zeros(_)
Zeros(n) ==
    IF n = 0 THEN "" ELSE IF n = 1 THEN "0"
    ELSE Zeros(n \div 2) \o Zeros(n - (n \div 2))

HugeNumeral == "1" \o Zeros(MaxDoubleDigits)

NcToolPageEN ==
    Page(<<"NC-Tool:T1 (1)">>,
         <<TitleTable, CommentTableEN, Table(Bordered, <<GridHeaderEN>> \o CouplingRowsA)>>,
         Img("img/t1.png"))

NcToolPageJA ==
    Page(<<"NC#~&(N):T1 (1)">>,
         <<TitleTable, CommentTableJA, Table(Bordered, <<GridHeaderJA>> \o CouplingRowsA)>>,
         Img("img/t1.png"))

\* an NC tool page with an empty name and nothing below the heading
NcToolPageBare == Page(<<" NC-Tool:  (2) ">>, <<>>, <<>>)

ToolPageEN == Page(<<"Tool: EM10 (EndMill)">>, <<ToolDimsEN, CondTable>>, <<>>)

ToolPageJA == Page(<<"%$: EM10 (EndMill)">>, <<ToolDimsJA, CondTable>>, <<>>)

HolderPageEN == Page(<<"Holder: H1">>, <<HolderTableEN>>, <<>>)

HolderPageJA == Page(<<"@&^~: H1">>, <<HolderTableJA>>, <<>>)

ExtensionPageEN == Page(<<"Extension: S1">>, <<TitleTable>>, <<>>)

SubholderPageJA == Page(<<"!|@&^~: S1">>, <<TitleTable>>, <<>>)

PagesEN == {NcToolPageEN, ToolPageEN, HolderPageEN, ExtensionPageEN}

PagesJA == {NcToolPageJA, ToolPageJA, HolderPageJA, SubholderPageJA}

PagesOther == { NcToolPageBare, Page(<<"Summary">>, <<TitleTable>>, <<>>) }

PageSet == PagesEN \cup PagesJA \cup PagesOther

\* an NC tool page whose component table is not flagged border="1"
NcToolPageUnbordered ==
    Page(<<"NC-Tool:T6 (6)">>,
         <<TitleTable, CommentTableEN,
           Table([border |-> "0"], <<GridHeaderEN>> \o CouplingRowsA)>>,
         Img("img/t6.png"))

\* pages with defects: tables and images missing, a first image without a
\* source, a length that is no number, a length beyond the doubles, no heading
PagesDefect ==
    { NcToolPageBare,
      Page(<<"NC-Tool:T3 (03)">>,
           <<TitleTable, TitleTable,
             Table(Bordered, <<GridHeaderEN, <<"Tool", "EM3", "n/a">>,
                               <<"EXT", "", "12.5 mm">> >>)>>,
           <<[alt |-> "x"], [src |-> "img/t3.png"]>>),
      Page(<<"NC-Tool:T4 (4)">>,
           <<TitleTable, TitleTable,
             Table(Bordered, <<GridHeaderEN, <<"Tool", "EM4", HugeNumeral>> >>)>>,
           Img("img/t4.png")),
      NcToolPageUnbordered,
      Page(<<"Tool: EM3 (Drill)">>, <<>>, <<>>),
      Page(<<"Holder: H3">>, <<>>, <<>>),
      Page(<<"Extension: S3">>, <<>>, <<>>),
      Page(<<>>, <<>>, <<>>) }

RECURSIVE SeqsUpTo(_, _)
SeqsUpTo(S, n) ==
    IF n = 0 THEN {<<>>}
    ELSE LET shorter == SeqsUpTo(S, n - 1) IN
         shorter \cup {Append(s, x) : s \in {t \in shorter : Len(t) = n - 1}, x \in S}

\* rows of a component table: lengths with and without a numeral, the three
\* spellings of an extension, extensions without a name, without a length and
\* without both, a kind the parser does not know
ComponentRows ==
    { <<"Tool", "EM10", "40">>, <<"Tool", "EM3", "n/a">>, <<"Holder", "H1", "80">>,
      <<"Extension", "S1", "25">>, <<"subholder", "S2", "12.5">>, <<"EXT", "S3", "">>,
      <<"ext", "", "7">>, <<"Extension", "", "">>, <<"Spacer", "X", "5">> }

\* an NC tool page with the rows rows in its component table
ComponentPage(rows) ==
    Page(<<"NC-Tool:T5 (5)">>,
         <<TitleTable, CommentTableEN, Table(Bordered, <<GridHeaderEN>> \o rows)>>,
         Img("img/t5.png"))

\* a report with a page of every kind
FullDocument ==
    <<Page(<<"Summary">>, <<TitleTable>>, <<>>), NcToolPageEN, ToolPageEN, HolderPageEN,
      ExtensionPageEN, Page(<<"Summary">>, <<TitleTable>>, <<>>)>>

ComponentDocuments ==
    {<<ComponentPage(rows)>> : rows \in SeqsUpTo(ComponentRows, MaxRows)}
        \cup {FullDocument}

Documents == SeqsUpTo(PageSet, MaxPages)

DefectDocuments == SeqsUpTo(PagesDefect, MaxPages)

(***************************************************************************)
(* parse_nctools_html as a state machine: pc is "start" before the pages    *)
(* are selected, "loop" in the loop over them (idx the page to visit),      *)
(* "done" after the return and "raised" after an exception.                 *)
(***************************************************************************)
State == [raised |-> FALSE, objs |-> objs, current |-> current,
          records |-> records, errors |-> errors]

Becomes(st) ==
    /\ objs' = st.objs
    /\ current' = st.current
    /\ records' = st.records
    /\ errors' = st.errors
    /\ pc' = IF st.raised THEN "raised" ELSE "loop"
    /\ idx' = idx + 1
    /\ UNCHANGED <<pages, call, gui>>

Returns(st) ==
    /\ objs' = st.objs
    /\ current' = st.current
    /\ records' = st.records
    /\ errors' = st.errors
    /\ pc' = "done"
    /\ UNCHANGED <<pages, idx, call, gui>>

Init ==
    /\ pages \in Documents
    /\ pc = "start"
    /\ idx = 0
    /\ objs = <<>>
    /\ current = 0
    /\ records = <<>>
    /\ errors = <<>>
    /\ ParserOnly

\* the selection of the pages gone wrong: an empty selection is accepted
select_pages_lenient(ps) == "loop"

\* parse_html.py 215-224
select_pages(ps) == IF ps = <<>> THEN "raised" ELSE "loop"

Start ==
    /\ pc = "start"
    /\ pc' = select_pages(pages)
    /\ idx' = 1
    /\ UNCHANGED <<pages, objs, current, records, errors, call, gui>>

InLoop == pc = "loop" /\ idx <= Len(pages)

NcToolPage ==
    /\ InLoop
    /\ M_nct(pages[idx]).ok
    /\ Becomes(page_step(State, pages[idx]))

IgnoredPage ==
    /\ InLoop
    /\ current = 0
    /\ ~M_nct(pages[idx]).ok
    /\ Becomes(page_step(State, pages[idx]))

ToolPage ==
    /\ InLoop
    /\ current # 0
    /\ ~M_nct(pages[idx]).ok
    /\ M_tool(pages[idx]).ok
    /\ Becomes(page_step(State, pages[idx]))

HolderPage ==
    /\ InLoop
    /\ current # 0
    /\ ~M_nct(pages[idx]).ok
    /\ ~M_tool(pages[idx]).ok
    /\ M_holder(pages[idx]).ok
    /\ Becomes(page_step(State, pages[idx]))

SubComponentPage ==
    /\ InLoop
    /\ current # 0
    /\ ~M_nct(pages[idx]).ok
    /\ ~M_tool(pages[idx]).ok
    /\ ~M_holder(pages[idx]).ok
    /\ M_sub(pages[idx]).ok \/ M_ext(pages[idx]).ok
    /\ Becomes(page_step(State, pages[idx]))

UnknownPage ==
    /\ InLoop
    /\ current # 0
    /\ ~M_nct(pages[idx]).ok
    /\ ~M_tool(pages[idx]).ok
    /\ ~M_holder(pages[idx]).ok
    /\ ~M_sub(pages[idx]).ok
    /\ ~M_ext(pages[idx]).ok
    /\ Becomes(page_step(State, pages[idx]))

\* parse_html.py 398-399
Finish ==
    /\ pc = "loop"
    /\ idx > Len(pages)
    /\ Returns(finalize_current(State))

Next ==
    \/ Start
    \/ NcToolPage
    \/ IgnoredPage
    \/ ToolPage
    \/ HolderPage
    \/ SubComponentPage
    \/ UnknownPage
    \/ Finish

Spec == Init /\ [][Next]_vars

\* the parser on NC tool pages with all component tables of up to MaxRows rows
InitRows ==
    /\ pages \in ComponentDocuments
    /\ pc = "start"
    /\ idx = 0
    /\ objs = <<>>
    /\ current = 0
    /\ records = <<>>
    /\ errors = <<>>
    /\ ParserOnly

SpecRows == InitRows /\ [][Next]_vars

\* the parser on documents with defects
InitDefects ==
    /\ pages \in DefectDocuments
    /\ pc = "start"
    /\ idx = 0
    /\ objs = <<>>
    /\ current = 0
    /\ records = <<>>
    /\ errors = <<>>
    /\ ParserOnly

SpecDefects == InitDefects /\ [][Next]_vars

(***************************************************************************)
(* Properties of parse_nctools_html.                                        *)
(***************************************************************************)
Range(s) == {s[i] : i \in DOMAIN s}

\* the input ends or the page to visit is an NC tool (Assembly) page
AtSealPoint == pc = "loop" /\ (idx > Len(pages) \/ M_nct(pages[idx]).ok)

\* the pages of ps classified as NC tool (Assembly) pages, in document order
AssemblyPages(ps) == SelectSeq(ps, LAMBDA p : M_nct(p).ok)

\* C1: the list of returned records is append-only and sealed records are
\* final: a record is appended exactly once, when the next Assembly page is
\* met or the input ends, and from then on no page of any kind changes one
\* of its fields or warnings, and it is never the open record again.
SealedRecordsFinal ==
    [][ /\ Len(records') >= Len(records)
        /\ SubSeq(records', 1, Len(records)) = records
        /\ \A i \in DOMAIN records : objs'[records[i]] = objs[records[i]]
        /\ current' # 0 => current' \notin Range(records')
        /\ records' # records =>
             /\ records' = Append(records, current)
             /\ current # 0
             /\ current \notin Range(records)
             /\ AtSealPoint
        /\ (AtSealPoint /\ current # 0) => records' = Append(records, current)
      ]_vars

\* a record is sealed and a holder page after it has been attached to the
\* record that follows it
SealedThenHolderPage ==
    /\ pc = "loop"
    /\ idx = 4
    /\ Len(records) = 1
    /\ current = 2
    /\ M_holder(pages[3]).ok
    /\ objs[2].holder_page_name = "H1"

\* C2: when the parse of a document with at least one page returns, the
\* number of records equals the number of pages classified as Assembly,
\* whatever other pages precede, follow or interleave them.
RecordCountIsAssemblyCount ==
    (pc = "done" /\ pages # <<>>) => Len(records) = Len(AssemblyPages(pages))

\* two records are returned for a document of three pages whose first page
\* is no Assembly page
TwoRecordsAmongOtherPages ==
    /\ pc = "done"
    /\ Len(pages) = 3
    /\ Len(records) = 2
    /\ ~M_nct(pages[1]).ok
    /\ M_nct(pages[2]).ok
    /\ M_nct(pages[3]).ok

\* the name and the identifier the heading of Assembly page p captures
CapturedName(p) == clean_text(M_nct(p).caps[1])

CapturedNo(p) == DigitsToInt(M_nct(p).caps[2])

\* C3: the returned records are in the order in which their Assembly pages
\* were met: the i-th record carries the identifier and the name captured
\* from the i-th Assembly page (an empty name shown as the placeholder of
\* C7); the list is never re-sorted.
RecordsInPageOrder ==
    records # <<>> =>
        LET assembly == AssemblyPages(pages) IN
        /\ Len(records) <= Len(assembly)
        /\ \A i \in DOMAIN records :
             /\ objs[records[i]].nctool_no = <<CapturedNo(assembly[i])>>
             /\ objs[records[i]].nctool_name =
                  IF CapturedName(assembly[i]) = "" THEN UNKNOWN_NCTOOL
                  ELSE CapturedName(assembly[i])

\* a document whose Assembly pages come with descending identifiers returns
\* them in that order
ReturnedInDocumentOrder ==
    /\ pc = "done"
    /\ Len(records) = 2
    /\ objs[records[1]].nctool_no = <<2>>
    /\ objs[records[2]].nctool_no = <<1>>
    /\ objs[records[2]].nctool_name = "T1"
    /\ CapturedNo(AssemblyPages(pages)[1]) = 2

HasPrefix(s, pre) == Len(s) >= Len(pre) /\ SubSeq(s, 1, Len(pre)) = pre

\* the heading of a SubComponent page: the subholder heading (JA) or
\* 'Extension: <name>' (EN)
IsSubComponentHeading(p) ==
    \/ HasPrefix(H3Text(p), H3_SUBHOLDER_JA)
    \/ HasPrefix(H3Text(p), H3_EXTENSION_EN)

\* rec2 is rec1 with one more warning and nothing else changed
OneWarningMore(rec1, rec2) ==
    /\ [rec2 EXCEPT !.warnings = <<>>] = [rec1 EXCEPT !.warnings = <<>>]
    /\ Len(rec2.warnings) = Len(rec1.warnings) + 1
    /\ SubSeq(rec2.warnings, 1, Len(rec1.warnings)) = rec1.warnings

\* C4: a SubComponent page (JA subholder heading or EN 'Extension:' heading)
\* met while a record is open appends one warning to that record and changes
\* nothing else, in both dialects alike.
SubComponentOnlyWarns ==
    [][ (InLoop /\ current # 0 /\ IsSubComponentHeading(pages[idx])) =>
           /\ current' = current
           /\ records' = records
           /\ errors' = errors
           /\ Len(objs') = Len(objs)
           /\ \A i \in DOMAIN objs : i # current => objs'[i] = objs[i]
           /\ OneWarningMore(objs[current], objs'[current])
      ]_vars

\* the pages of the two dialects that describe the same contents
DialectPairs ==
    { <<NcToolPageJA, NcToolPageEN>>, <<ToolPageJA, ToolPageEN>>,
      <<HolderPageJA, HolderPageEN>>, <<SubholderPageJA, ExtensionPageEN>> }

EnglishPage(p) == CHOOSE q \in PagesEN : <<p, q>> \in DialectPairs

EnglishOf(ps) == [i \in DOMAIN ps |-> EnglishPage(ps[i])]

\* the returned records without their warnings and their provenance
Canonical(st) ==
    [i \in DOMAIN st.records |->
        [st.objs[st.records[i]] EXCEPT !.warnings = <<>>, !.source_html_path = ""]]

\* C5: a document written with the JA headings and labels and the document
\* with the same pages and contents written with the EN ones return records
\* with the same canonical field values (all fields but warnings and
\* provenance).
DialectsAgree ==
    (pc = "done" /\ \A i \in DOMAIN pages : pages[i] \in PagesJA) =>
        Canonical(State) = Canonical(parse_nctools_html(EnglishOf(pages)))

\* the two dialects do agree on the documents without a SubComponent page
DialectsAgreeWithoutSubComponent ==
    (pc = "done" /\ \A i \in DOMAIN pages : pages[i] \in PagesJA \ {SubholderPageJA}) =>
        Canonical(State) = Canonical(parse_nctools_html(EnglishOf(pages)))

\* the pages visited so far
Visited == SubSeq(pages, 1, idx - 1)

\* C6: pages met before the first Assembly page (Tool, Holder, SubComponent
\* or Unknown) produce no record and no warning: the list of records, the
\* warnings of the document and the absent current record stay as they were.
LeadingPagesDiscarded ==
    (pc \in {"loop", "done"} /\ AssemblyPages(Visited) = <<>>) =>
        /\ records = <<>>
        /\ errors = <<>>
        /\ current = 0
        /\ objs = <<>>

\* a tool page, a holder page and an extension page were visited before any
\* Assembly page
ThreeLeadingPagesVisited ==
    /\ pc = "loop"
    /\ idx = 4
    /\ M_tool(pages[1]).ok
    /\ M_holder(pages[2]).ok
    /\ M_ext(pages[3]).ok

\* C7: every returned record has a non-empty display name: when the name
\* captured from the Assembly heading is empty after trimming, the sealed
\* record carries '(UNKNOWN_NCTOOL)' and the empty-name warning, and sealing
\* it does not make the parse fail.
DisplayNameNeverEmpty ==
    /\ [](\A i \in DOMAIN records :
            /\ Strip(objs[records[i]].nctool_name) # ""
            /\ Strip(CapturedName(AssemblyPages(pages)[i])) = "" =>
                 /\ objs[records[i]].nctool_name = UNKNOWN_NCTOOL
                 /\ W_EMPTY_NAME \in Range(objs[records[i]].warnings))
    /\ [][ (AtSealPoint /\ current # 0 /\ Strip(objs[current].nctool_name) = "") =>
              /\ pc' \in {"loop", "done"}
              /\ records' = Append(records, current)
         ]_vars

\* the record of an Assembly page with an empty name is returned with the
\* placeholder and the warning
PlaceholderReturned ==
    /\ pc = "done"
    /\ records # <<>>
    /\ CapturedName(AssemblyPages(pages)[1]) = ""
    /\ objs[records[1]].nctool_name = UNKNOWN_NCTOOL
    /\ objs[records[1]].warnings = <<W_NCT_TABLES, W_NO_COUPLING, W_NO_IMAGE, W_EMPTY_NAME>>

\* C8: a document without page blocks makes the parse raise at once; no
\* records and no warnings come back.
NoPagesIsFatal ==
    (pages = <<>> /\ pc # "start") =>
        /\ pc = "raised"
        /\ idx = 1
        /\ records = <<>>
        /\ errors = <<>>
        /\ objs = <<>>

\* the parse of the empty document has raised
EmptyDocumentRaised == pages = <<>> /\ pc = "raised"

\* C9: the parse of a document with at least one page block returns and
\* never raises, whatever tables or images are missing or malformed and
\* whatever length texts are not numbers.
ParseNeverRaises == pc = "raised" => pages = <<>>

\* the rows below the header of the component table of Assembly page p, as
\* <<kind, name, length>>
ComponentRowsOf(p) == Tail(FirstBordered(p.tables)[1].rows)

IsToolRow(row) == Lower(row[1]) = "tool"

IsExtensionRow(row) == Lower(row[1]) \in {"extension", "subholder", "ext"}

\* the sum of the lengths with a numeral of the rows with an index in I
RECURSIVE LengthSum(_, _)
LengthSum(rows, I) ==
    IF I = {} THEN FNum(0)
    ELSE LET i == CHOOSE j \in I : TRUE IN
         IF to_float_mm(rows[i][3]).k = "none" THEN LengthSum(rows, I \ {i})
         ELSE FAdd(LengthSum(rows, I \ {i}), to_float_mm(rows[i][3]))

ExtensionSum(rows) == LengthSum(rows, {i \in DOMAIN rows : IsExtensionRow(rows[i])})

\* the tool row that sets tool_name and tool_length: the last one
ToolRows(rows) == SelectSeq(rows, IsToolRow)

OtherRows(rows) == SelectSeq(rows, LAMBDA row : ~IsToolRow(row))

\* the overhang fields of record rec are those of the component rows rows
OverhangOfRows(rec, rows) ==
    IF ToolRows(rows) = <<>>
    THEN rec.tool_overhang_mm = "" /\ rec.overhang_mm = ""
    ELSE LET tool == ToolRows(rows)[Len(ToolRows(rows))] IN
         /\ rec.tool_name = tool[2]
         /\ rec.tool_length = tool[3]
         /\ IF to_float_mm(tool[3]).k = "none"
            THEN rec.tool_overhang_mm = "" /\ rec.overhang_mm = ""
            ELSE /\ rec.tool_overhang_mm = fmt_mm(to_float_mm(tool[3]))
                 /\ rec.overhang_mm = fmt_mm(FAdd(ExtensionSum(rows), to_float_mm(tool[3])))

\* the record of an NC tool page with the component rows rows
RecordOfRows(rows) ==
    component_fields(NcToolRecord(HTML_PATH),
                     parse_grid_table(Table(Bordered, <<GridHeaderEN>> \o rows))).rec

\* the two overhang fields of rec1 and rec2 are the same
SameOverhang(rec1, rec2) ==
    /\ rec1.overhang_mm = rec2.overhang_mm
    /\ rec1.tool_overhang_mm = rec2.tool_overhang_mm

\* C10: for an Assembly page with a bordered component table, tool-overhang
\* is the formatted length of the tool row that set tool name and tool
\* length and total overhang the formatted sum of the extension lengths and
\* that tool length, both empty when that length has no numeral or there is
\* no tool row; moving the tool rows before or behind the extension rows
\* changes neither (extension 25 and tool 40 give '65', extension 25 alone
\* gives '' and '').
OverhangFromRows ==
    \A i \in DOMAIN records :
        LET rec == objs[records[i]]
            rows == ComponentRowsOf(AssemblyPages(pages)[i])
        IN  /\ OverhangOfRows(rec, rows)
            /\ SameOverhang(RecordOfRows(ToolRows(rows) \o OtherRows(rows)), rec)
            /\ SameOverhang(RecordOfRows(OtherRows(rows) \o ToolRows(rows)), rec)
            /\ rows \in { << <<"Extension", "S1", "25">>, <<"Tool", "EM10", "40">> >>,
                          << <<"Tool", "EM10", "40">>, <<"Extension", "S1", "25">> >> }
                 => rec.overhang_mm = "65" /\ rec.tool_overhang_mm = "40"
            /\ rows = << <<"Extension", "S1", "25">> >>
                 => rec.overhang_mm = "" /\ rec.tool_overhang_mm = ""

\* the record of a page with an extension row of 25 before, a tool row of 40
\* and an extension row of 12.5 behind it is returned with total overhang 77.5
OverhangAroundToolRow ==
    /\ pc = "done"
    /\ Len(records) = 1
    /\ ComponentRowsOf(pages[1]) =
         << <<"Extension", "S1", "25">>, <<"Tool", "EM10", "40">>,
            <<"subholder", "S2", "12.5">> >>
    /\ objs[records[1]].overhang_mm = "77.5"
    /\ objs[records[1]].tool_overhang_mm = "40"
    /\ objs[records[1]].ext_overhang_mm = "37.5"

\* C11: for an Assembly page with a bordered component table,
\* extension-overhang is the formatted sum of the lengths with a numeral of
\* all extension-like rows (kinds 'extension', 'subholder', 'ext' in any
\* case) when there is such a row, even one without a numeral, and the
\* literal '0' when there is none (a tool row of 40 alone gives '0', '40'
\* and '40').
ExtOverhangFromRows ==
    \A i \in DOMAIN records :
        LET rec == objs[records[i]]
            rows == ComponentRowsOf(AssemblyPages(pages)[i])
        IN  /\ rec.ext_overhang_mm =
                 IF \E k \in DOMAIN rows : IsExtensionRow(rows[k])
                 THEN fmt_mm(ExtensionSum(rows))
                 ELSE "0"
            /\ rows = << <<"Tool", "EM10", "40">> >> =>
                 /\ rec.ext_overhang_mm = "0"
                 /\ rec.tool_overhang_mm = "40"
                 /\ rec.overhang_mm = "40"
            /\ rows = << <<"EXT", "S3", "">>, <<"subholder", "S2", "12.5">>,
                         <<"Extension", "S1", "25">> >> =>
                 rec.ext_overhang_mm = "37.5"

\* the record of a page with an extension row without a length, a subholder
\* row of 12.5 and a tool row is returned with extension-overhang 12.5
ExtOverhangOfMixedRows ==
    /\ pc = "done"
    /\ Len(records) = 1
    /\ ComponentRowsOf(pages[1]) =
         << <<"EXT", "S3", "">>, <<"subholder", "S2", "12.5">>,
            <<"Tool", "EM10", "40">> >>
    /\ objs[records[1]].ext_overhang_mm = "12.5"
    /\ objs[records[1]].overhang_mm = "52.5"

\* page p has a table flagged border="1"
HasBorderedTable(p) ==
    \E k \in DOMAIN p.tables :
        "border" \in DOMAIN p.tables[k].attrs /\ p.tables[k].attrs["border"] = "1"

\* C12: on an Assembly page without a table flagged border="1" a warning is
\* appended to the new record and the component extraction is skipped:
\* holder name and length, tool name and length, the extension description
\* and the three derived fields stay the empty string.
NoBorderedTableSkipsComponents ==
    \A j \in DOMAIN objs :
        ~HasBorderedTable(AssemblyPages(pages)[j]) =>
            /\ W_NO_COUPLING \in Range(objs[j].warnings)
            /\ objs[j].holder_name = ""
            /\ objs[j].holder_length = ""
            /\ objs[j].tool_name = ""
            /\ objs[j].tool_length = ""
            /\ objs[j].extensions_str = ""
            /\ objs[j].ext_overhang_mm = ""
            /\ objs[j].tool_overhang_mm = ""
            /\ objs[j].overhang_mm = ""

\* the record of a page whose component table has border="0" is returned
\* with the warning, its comment read and no component field set
UnborderedPageReturned ==
    /\ pc = "done"
    /\ Len(records) = 1
    /\ pages[1] = NcToolPageUnbordered
    /\ objs[records[1]].nctool_comment = "rough"
    /\ objs[records[1]].warnings = <<W_NO_COUPLING>>
    /\ objs[records[1]].holder_name = ""
    /\ objs[records[1]].ext_overhang_mm = ""

\* the extension-like rows that have a name or a length, in row order
DescribedRows(rows) ==
    SelectSeq(rows, LAMBDA row : IsExtensionRow(row) /\ (row[2] # "" \/ row[3] # ""))

\* the entry of such a row: 'name(L=length)', 'name' or '(L=length)'
EntryText(row) ==
    IF row[3] = "" THEN row[2]
    ELSE IF row[2] = "" THEN "(L=" \o row[3] \o ")"
    ELSE row[2] \o "(L=" \o row[3] \o ")"

\* the entries of the first n rows of rows joined with ' / '
RECURSIVE JoinedEntries(_, _)
JoinedEntries(rows, n) ==
    IF n = 0 THEN ""
    ELSE IF n = 1 THEN EntryText(rows[1])
    ELSE JoinedEntries(rows, n - 1) \o " / " \o EntryText(rows[n])

\* C13: the extension description of a record joins with ' / ', in row order,
\* one entry per extension-like component row: 'name(L=length)' when both
\* are there, 'name' when only the name is, '(L=length)' when only the length
\* is; rows with neither and rows of other kinds contribute nothing.
ExtensionDescriptionFromRows ==
    \A i \in DOMAIN records :
        LET rec == objs[records[i]]
            rows == ComponentRowsOf(AssemblyPages(pages)[i])
        IN  /\ rec.extensions_str = JoinedEntries(DescribedRows(rows), Len(DescribedRows(rows)))
            /\ rows = << <<"Extension", "S1", "25">>, <<"EXT", "S3", "">>,
                         <<"ext", "", "7">> >> =>
                 rec.extensions_str = "S1(L=25) / S3 / (L=7)"
            /\ rows = << <<"Extension", "", "">>, <<"Spacer", "X", "5">>,
                         <<"Tool", "EM10", "40">> >> =>
                 rec.extensions_str = ""

\* the record of a page with a tool row between an extension without a
\* length and an extension without a name
DescriptionOfMixedRows ==
    /\ pc = "done"
    /\ Len(records) = 1
    /\ ComponentRowsOf(pages[1]) =
         << <<"EXT", "S3", "">>, <<"Tool", "EM10", "40">>, <<"ext", "", "7">> >>
    /\ objs[records[1]].extensions_str = "S3 / (L=7)"

IsHolderRow(row) == Lower(row[1]) = "holder"

\* the component rows hold a holder row, an extension-like row and a tool row
\* and every such row has a length with a numeral
HasAllLengths(rows) ==
    /\ \E k \in DOMAIN rows : IsHolderRow(rows[k])
    /\ \E k \in DOMAIN rows : IsExtensionRow(rows[k])
    /\ \E k \in DOMAIN rows : IsToolRow(rows[k])
    /\ \A k \in DOMAIN rows :
         (IsHolderRow(rows[k]) \/ IsExtensionRow(rows[k]) \/ IsToolRow(rows[k]))
            => to_float_mm(rows[k][3]).k = "num"

\* the length of the last row of rows that satisfies Is
LastLength(rows, Is(_)) ==
    to_float_mm(SelectSeq(rows, Is)[Len(SelectSeq(rows, Is))][3])

\* C14: the parse computes the total length (holder + extensions + tool) of
\* each record: for an Assembly page whose bordered component table has
\* holder, extension and tool rows with lengths that are numbers,
\* total_length_mm is the formatted sum of those lengths.
TotalLengthFromRows ==
    \A i \in DOMAIN records :
        LET rows == ComponentRowsOf(AssemblyPages(pages)[i]) IN
        HasAllLengths(rows) =>
            objs[records[i]].total_length_mm =
                fmt_mm(FAdd(FAdd(LastLength(rows, IsHolderRow), ExtensionSum(rows)),
                            LastLength(rows, IsToolRow)))

\* the heading of page p matches none of the Assembly, Tool, Holder and
\* SubComponent patterns
IsUnknownPage(p) ==
    /\ ~M_nct(p).ok
    /\ ~M_tool(p).ok
    /\ ~M_holder(p).ok
    /\ ~M_sub(p).ok
    /\ ~M_ext(p).ok

\* C15: a page whose heading matches none of the Assembly, Tool, Holder and
\* SubComponent patterns is discarded silently in every state: the current
\* record, open or absent, the list of records and all warning lists stay
\* as they are.
UnknownPageDiscarded ==
    [][ (InLoop /\ IsUnknownPage(pages[idx])) =>
           /\ UNCHANGED <<objs, current, records, errors>>
           /\ pc' = "loop"
           /\ idx' = idx + 1
      ]_vars

\* a page of unknown kind was visited while a record was open, after one
\* was visited while none was
UnknownPagesVisited ==
    /\ pc = "loop"
    /\ idx = 4
    /\ IsUnknownPage(pages[1])
    /\ M_nct(pages[2]).ok
    /\ IsUnknownPage(pages[3])
    /\ current = 1
    /\ objs[1].warnings = <<>>

\* the image references of page p: the sources of its images, in page order
ImageReferences(p) ==
    SelectSeq(p.imgs, LAMBDA img : "src" \in DOMAIN img /\ img["src"] # "")

\* the record objs[j] has gone through the whole NC tool branch
BranchCompleted(j) == ~(pc = "raised" /\ j = Len(objs))

\* C16: on an Assembly page the image reference of the record is set to the
\* first image reference found on the page, if the page has any, and the
\* record gets the 'image source not found' warning if and only if no image
\* reference is found on the page.
FirstImageReferenceTaken ==
    \A j \in DOMAIN objs :
        BranchCompleted(j) =>
            LET refs == ImageReferences(AssemblyPages(pages)[j]) IN
            /\ refs # <<>> => objs[j].image_rel_src = refs[1]["src"]
            /\ (W_NO_IMAGE \in Range(objs[j].warnings)) <=> (refs = <<>>)

\* the same for the pages whose first image has a source or that have no image
FirstImageElementTaken ==
    \A j \in DOMAIN objs :
        LET p == AssemblyPages(pages)[j] IN
        (BranchCompleted(j) /\ (p.imgs = <<>> \/ ("src" \in DOMAIN p.imgs[1] /\ p.imgs[1]["src"] # ""))) =>
            /\ ImageReferences(p) # <<>> => objs[j].image_rel_src = ImageReferences(p)[1]["src"]
            /\ (W_NO_IMAGE \in Range(objs[j].warnings)) <=> (ImageReferences(p) = <<>>)


(***************************************************************************)
(* The table readers on tables of their own.                                *)
(***************************************************************************)
\* rows of a key-value table: one and two pairs, a key written twice and
\* with blanks around it, a key the map does not know, a pair without a key
\* in each place, a row of three cells
KvTableRows ==
    { <<"Diameter", "10">>, <<" Diameter ", " 12  mm ">>,
      <<"Cutting edges", "4", "Corner radius", "0.5">>,
      <<"", "x">>, <<"Weight", "3", " ", "y">>, <<"", "z", "Diameter", "30">>,
      <<"Diameter", "8", "Corner radius">> }

\* a tool page with the rows rows in its dimension table
KvPage(rows) == Page(<<"Tool: EM10 (EndMill)">>, <<Table(NoAttrs, rows), CondTable>>, <<>>)

KvDocuments ==
    {<<NcToolPageEN, KvPage(rows)>> : rows \in SeqsUpTo(KvTableRows, MaxRows)}
        \cup {FullDocument}

\* the parser on tool pages with all dimension tables of up to MaxRows rows
InitKv ==
    /\ pages \in KvDocuments
    /\ pc = "start"
    /\ idx = 0
    /\ objs = <<>>
    /\ current = 0
    /\ records = <<>>
    /\ errors = <<>>
    /\ ParserOnly

SpecKv == InitKv /\ [][Next]_vars

\* the pairs of cells of one row: one of a row of two cells, two of a row of
\* four, none of any other row
PairsOfRow(tds) ==
    IF Len(tds) = 2 THEN << <<tds[1], tds[2]>> >>
    ELSE IF Len(tds) = 4 THEN << <<tds[1], tds[2]>>, <<tds[3], tds[4]>> >>
    ELSE <<>>

\* the pairs of the rows trs, in the order of the table
RECURSIVE PairsOfRows(_)
PairsOfRows(trs) ==
    IF trs = <<>> THEN <<>>
    ELSE PairsOfRow(CleanCells(Head(trs))) \o PairsOfRows(Tail(trs))

\* d maps the normalized key of every pair to the value of the pair, the last
\* pair of a key counting, and nothing else
IsMappingOf(d, pairs) ==
    /\ DOMAIN d = {norm_kv_key(pairs[i][1]) : i \in 1..Len(pairs)}
    /\ \A i \in 1..Len(pairs) :
          (\A j \in (i + 1)..Len(pairs) :
              norm_kv_key(pairs[j][1]) # norm_kv_key(pairs[i][1]))
          => d[norm_kv_key(pairs[i][1])] = pairs[i][2]

\* the dimension tables of the tool pages of a document
KvTablesOf(ps) ==
    {ps[i].tables[1] : i \in {j \in 1..Len(ps) : M_tool(ps[j]).ok /\ ps[j].tables # <<>>}}

\* C17 as stated: every row of two cells maps its normalized first cell to its
\* second, every row of four cells its first to its second and its third to
\* its fourth, rows of any other length add nothing
EveryPairMapped ==
    \A t \in KvTablesOf(pages) : IsMappingOf(parse_kv_table(t), PairsOfRows(t.rows))

\* C17, amended: the same for the pairs whose key cell is not empty; a pair
\* with an empty key cell adds nothing
EveryKeyedPairMapped ==
    \A t \in KvTablesOf(pages) :
        IsMappingOf(parse_kv_table(t),
                    SelectSeq(PairsOfRows(t.rows), LAMBDA pr : pr[1] # ""))

\* a table of a pair without a key, a row of three cells and a key written
\* twice has been read: the record has the diameter of the last pair
KeylessPairRead ==
    /\ pc = "done"
    /\ Len(pages) = 2
    /\ pages[2].tables[1].rows
         = << <<"", "x">>, <<"Diameter", "8", "Corner radius">>, <<" Diameter ", " 12  mm ">> >>
    /\ Len(records) = 1
    /\ objs[records[1]].tool_diameter_mm = "12 mm"


\* rows of a grid table, the first of a table being its header: the header of
\* the component table, a header that names a column twice, rows as long as
\* the header, shorter and longer, a row of empty cells, a row without cells
GridTableRows ==
    { GridHeaderEN, <<" Name ", "Name", " Reach ">>, <<"Tool", "EM10", "40">>,
      <<"Holder", "H1">>, <<"Extension", "S1", "25", "x">>, <<"", " ", "">>, <<>> }

\* an NC tool page whose component table has the rows rows, header included
GridPage(rows) ==
    Page(<<"NC-Tool:T7 (7)">>, <<TitleTable, CommentTableEN, Table(Bordered, rows)>>,
         Img("img/t7.png"))

GridDocuments ==
    {<<GridPage(rows)>> : rows \in SeqsUpTo(GridTableRows, MaxRows)} \cup {FullDocument}

\* the parser on NC tool pages with all component tables of up to MaxRows
\* rows, whatever their header
InitGrid ==
    /\ pages \in GridDocuments
    /\ pc = "start"
    /\ idx = 0
    /\ objs = <<>>
    /\ current = 0
    /\ records = <<>>
    /\ errors = <<>>
    /\ ParserOnly

SpecGrid == InitGrid /\ [][Next]_vars

\* the tables of a document that are flagged border="1"
GridTablesOf(ps) ==
    UNION {{ps[i].tables[j] : j \in {k \in 1..Len(ps[i].tables) : IsBordered(ps[i].tables[k])}}
           : i \in 1..Len(ps)}

\* the rows below the header that have a cell which is not empty
FilledRows(t) ==
    SelectSeq(Tail(t.rows), LAMBDA tr : \E i \in 1..Len(tr) : clean_text(tr[i]) # "")

\* row maps exactly the keys of the header, each to the cell of tr in the
\* column of that key (the last column, where a key names several) or to
\* the empty string where tr has no such cell
IsRowUnder(row, header, tr) ==
    /\ DOMAIN row = {norm_grid_header(header[i]) : i \in 1..Len(header)}
    /\ \A i \in 1..Len(header) :
          (\A j \in (i + 1)..Len(header) :
              norm_grid_header(header[j]) # norm_grid_header(header[i]))
          => row[norm_grid_header(header[i])]
               = IF i <= Len(tr) THEN clean_text(tr[i]) ELSE ""

\* C18: the grid reader gives the empty sequence for a table without rows;
\* otherwise one mapping for every row below the header that is not all
\* empty, in the order of the table, with exactly the normalized keys of the
\* header, a row shorter than the header having "" in its missing fields
GridRowsUnderHeader ==
    \A t \in GridTablesOf(pages) :
        LET out == parse_grid_table(t) IN
        IF t.rows = <<>> THEN out = <<>>
        ELSE LET filled == FilledRows(t) IN
             /\ Len(out) = Len(filled)
             /\ \A n \in 1..Len(filled) : IsRowUnder(out[n], t.rows[1], filled[n])

\* a table with a row of empty cells and a short row below its header has
\* been read: the holder of the short row is on the record, without a length
ShortRowRead ==
    /\ pc = "done"
    /\ Len(pages) = 1
    /\ pages[1].tables[3].rows = <<GridHeaderEN, <<"", " ", "">>, <<"Holder", "H1">> >>
    /\ Len(parse_grid_table(pages[1].tables[3])) = 1
    /\ Len(records) = 1
    /\ objs[records[1]].holder_name = "H1"
    /\ objs[records[1]].holder_length = ""

\* a component table without any row has been read and nothing was raised
EmptyTableRead ==
    /\ pc = "done"
    /\ Len(pages) = 1
    /\ pages[1].tables[3].rows = <<>>
    /\ Len(records) = 1


(***************************************************************************)
(* _to_float_mm and _fmt_mm on length texts of their own.                   *)
(***************************************************************************)
\* the characters the length texts are put together from
LengthChars == {"1", "0", ".", "-", ","}

\* the texts of up to n characters of A
RECURSIVE TextsUpTo(_, _)
TextsUpTo(A, n) ==
    IF n = 0 THEN {""}
    ELSE LET shorter == TextsUpTo(A, n - 1) IN
         shorter \cup {t \o c : t \in {u \in shorter : Len(u) = n - 1}, c \in A}

\* the full-width spelling of a half-width character
FullWidthChar(s, i) ==
    IF InClass(CharAt(s, i), HALFWIDTH_CHARS)
    THEN CharAt(FULLWIDTH_CHARS,
                CHOOSE j \in 1..Len(HALFWIDTH_CHARS) :
                    CharAt(HALFWIDTH_CHARS, j) = CharAt(s, i))
    ELSE CharAt(s, i)

FullWidthOf(s) == MapChars(FullWidthChar, s)

\* length texts as reports have them: with a unit, in full width, with a
\* thousands separator, with a sign, with leading and trailing zeros, without
\* a numeral, with a numeral beyond the doubles
LengthExamples ==
    { "}]{;> mm", "130,000", " 12.5  mm", "n/a", "+5", "=5", "40", "40.1200", "40.0",
      "007", "L25.125mm", HugeNumeral }

LengthTexts ==
    LET half == TextsUpTo(LengthChars, MaxLen) IN
    half \cup {FullWidthOf(h) : h \in half} \cup LengthExamples

\* an NC tool page whose component table has one tool row of the length s
LengthPage(s) ==
    Page(<<"NC-Tool:T8 (8)">>,
         <<TitleTable, CommentTableEN,
           Table(Bordered, <<GridHeaderEN, <<"Tool", "EM8", s>> >>)>>,
         Img("img/t8.png"))

LengthDocuments == {<<LengthPage(s)>> : s \in LengthTexts} \cup {FullDocument}

\* the parser on NC tool pages with one tool row of every length text
InitLengths ==
    /\ pages \in LengthDocuments
    /\ pc = "start"
    /\ idx = 0
    /\ objs = <<>>
    /\ current = 0
    /\ records = <<>>
    /\ errors = <<>>
    /\ ParserOnly

SpecLengths == InitLengths /\ [][Next]_vars


\* the length texts of a document: the cells of the third column below the
\* header of its component tables
LengthTextsOf(ps) ==
    UNION {{t.rows[n][3] : n \in {k \in 2..Len(t.rows) : Len(t.rows[k]) >= 3}}
           : t \in GridTablesOf(ps)}

\* the half-width character of a full-width digit, period or sign; any
\* other character is itself
HalfWidthOf(c) ==
    IF c = "{" THEN "0" ELSE IF c = "}" THEN "1" ELSE IF c = "[" THEN "2"
    ELSE IF c = "]" THEN "3" ELSE IF c = "<" THEN "4" ELSE IF c = ">" THEN "5"
    ELSE IF c = "?" THEN "6" ELSE IF c = "*" THEN "7" ELSE IF c = "`" THEN "8"
    ELSE IF c = "'" THEN "9" ELSE IF c = ";" THEN "." ELSE IF c = "_" THEN "-"
    ELSE IF c = "=" THEN "+" ELSE c

\* the characters of s in half width, the thousands separators left out
ResultingChars(s) ==
    SelectSeq([i \in 1..Len(s) |-> HalfWidthOf(CharAt(s, i))], LAMBDA c : c # ",")

IsDigitChar(c) == c \in {"0", "1", "2", "3", "4", "5", "6", "7", "8", "9"}

\* the last place of the run of digits of cs that starts at place i
DigitRunEnd(cs, i) ==
    CHOOSE j \in i..Len(cs) :
        /\ \A k \in i..j : IsDigitChar(cs[k])
        /\ j = Len(cs) \/ ~IsDigitChar(cs[j + 1])

\* the number written by the digits of cs from place i to place j
RECURSIVE RunValue(_, _, _)
RunValue(cs, i, j) ==
    IF j < i THEN 0 ELSE 10 * RunValue(cs, i, j - 1) + DigitVal(cs[j])

\* the number written by the digits from place i to place j as decimals, in
\* units of 1 / FScale
RECURSIVE DecimalsValue(_, _, _)
DecimalsValue(cs, i, j) ==
    IF j < i \/ j - i + 1 > FracDigits
    THEN IF j < i THEN 0 ELSE DecimalsValue(cs, i, j - 1)
    ELSE DecimalsValue(cs, i, j - 1) + DigitVal(cs[j]) * Pow10(FracDigits - (j - i + 1))

\* the first signed decimal numeral of cs, which has a digit: the digits from
\* the first digit on, the sign right before them, the decimals behind a
\* period right after them
FirstNumeral(cs) ==
    LET i == CHOOSE n \in 1..Len(cs) :
                 IsDigitChar(cs[n]) /\ \A k \in 1..(n - 1) : ~IsDigitChar(cs[k])
        j == DigitRunEnd(cs, i)
        decimals == j + 2 <= Len(cs) /\ cs[j + 1] = "." /\ IsDigitChar(cs[j + 2])
    IN  [negative |-> i > 1 /\ cs[i - 1] = "-",
         first |-> i, last |-> j,
         dfirst |-> j + 2, dlast |-> IF decimals THEN DigitRunEnd(cs, j + 2) ELSE j + 1]

\* x is the value of the numeral nm of cs (a number beyond the doubles is inf)
IsValueOf(x, cs, nm) ==
    IF nm.last - nm.first + 1 > MaxDoubleDigits THEN x = FInf
    ELSE x = FNum((IF nm.negative THEN -1 ELSE 1)
                  * (RunValue(cs, nm.first, nm.last) * FScale
                     + DecimalsValue(cs, nm.dfirst, nm.dlast)))

\* C19: _to_float_mm gives None for the empty text and for a text without a
\* numeral, and otherwise the value of the first signed decimal numeral of
\* the text in half width without its thousands separators; it gives a value
\* for every text (the model of the function has no raising outcome)
FirstNumeralParsed ==
    \A s \in LengthTextsOf(pages) :
        LET cs == ResultingChars(s) IN
        IF \E n \in 1..Len(cs) : IsDigitChar(cs[n])
        THEN IsValueOf(to_float_mm(s), cs, FirstNumeral(cs))
        ELSE to_float_mm(s) = FNone

\* the examples of the specification have been parsed: 130.5 mm in full width
FullWidthLengthParsed ==
    /\ pc = "done"
    /\ Len(pages) = 1
    /\ LengthTextsOf(pages) = {"}]{;> mm"}
    /\ to_float_mm("}]{;> mm") = FNum(130 * FScale + FScale \div 2)
    /\ Len(records) = 1
    /\ objs[records[1]].tool_length = "}]{;> mm"
    /\ objs[records[1]].tool_overhang_mm = "130.5"

\* 130,000 with its thousands separator
SeparatedLengthParsed ==
    /\ pc = "done"
    /\ LengthTextsOf(pages) = {"130,000"}
    /\ to_float_mm("130,000") = FNum(130000 * FScale)
    /\ Len(records) = 1
    /\ objs[records[1]].tool_overhang_mm = "130000"

\* a text without a numeral
NoNumeralParsed ==
    /\ pc = "done"
    /\ LengthTextsOf(pages) = {"-.,-"}
    /\ to_float_mm("-.,-") = FNone
    /\ Len(records) = 1
    /\ objs[records[1]].tool_overhang_mm = ""


\* s is a numeral in canonical minimal-digit form: an optional minus sign,
\* digits without a leading zero (zero itself is "0", without a sign), and
\* either nothing more or a period and one to three decimals, the last not 0
IsCanonical(s) ==
    LET cs   == [i \in 1..Len(s) |-> CharAt(s, i)]
        from == IF Len(cs) > 0 /\ cs[1] = "-" THEN 2 ELSE 1
    IN  /\ from <= Len(cs)
        /\ IsDigitChar(cs[from])
        /\ LET to == DigitRunEnd(cs, from) IN
           /\ cs[from] = "0" => to = from
           /\ \/ to = Len(cs) /\ ~(from = 2 /\ cs[from] = "0")
              \/ /\ to + 2 <= Len(cs)
                 /\ cs[to + 1] = "."
                 /\ Len(cs) - (to + 1) <= 3
                 /\ \A k \in (to + 2)..Len(cs) : IsDigitChar(cs[k])
                 /\ cs[Len(cs)] # "0"

\* the first numeral of s has at most 12 digits before its period: with the
\* three decimals a double holds it to less than half a thousandth
IsOfLengthSize(s) ==
    LET cs == ResultingChars(s) IN
    (\E n \in 1..Len(cs) : IsDigitChar(cs[n]))
        => FirstNumeral(cs).last - FirstNumeral(cs).first + 1 <= 12

\* _fmt_mm(_to_float_mm(s)) returns, and returns t
FormatsTo(s, t) == ~fmt_mm_raises(to_float_mm(s)) /\ fmt_mm(to_float_mm(s)) = t

\* _fmt_mm(_to_float_mm(s)) returns a canonical numeral of the value of s
FormatsCanonically(s) ==
    /\ ~fmt_mm_raises(to_float_mm(s))
    /\ IsCanonical(fmt_mm(to_float_mm(s)))
    /\ to_float_mm(fmt_mm(to_float_mm(s))) = to_float_mm(s)

CanonicalRendered ==
    /\ pc = "done"
    /\ LengthTextsOf(pages) = {"-1.1"}
    /\ IsCanonical("-1.1")
    /\ Len(records) = 1
    /\ objs[records[1]].tool_overhang_mm = "-1.1"


(***************************************************************************)
(* The key normalizers on labels of their own.                              *)
(***************************************************************************)
\* the Japanese and the English label of every field of a key-value table:
\* the two comments and the nine dimensions of a tool
KvLabelPairs ==
    { <<"NC#~& komento", "NC-Tool comment">>, <<"@&^~ komento", "Holder comment">>,
      <<"chokkei", "Diameter">>, <<"koonaa hankei", "Corner radius">>,
      <<"hasuu", "Cutting edges">>, <<"sessaku nagasa (ap)", "Cutting length">>,
      <<"shanku chokkei", "Shank diameter">>, <<"mentori nagasa", "Chamfer length">>,
      <<"sentan nagasa", "Tip length">>, <<"teepaa kakudo", "Cone angle">>,
      <<"supindoru kaiten houkou", "Spindle orientation">> }

\* the Japanese and the English label of the three columns of a grid table
GridLabelPairs ==
    { <<"kappuringu shurui", "Coupling type">>, <<"meishou", "Name">>,
      <<"zenchou", "Reach">> }

\* labels the tables do not have: in another case, of another table, of no
\* table, the canonical keys themselves, the empty label
OtherLabels ==
    { "diameter", "DIAMETER", "corner radius", "Corner Radius", "CHOKKEI", "name", "NAME",
      "reach", "coupling_type", "cutting_edges", "Weight", "S (n)", "Diameter:", "" }

LabelsOf(pairs) == {pr[1] : pr \in pairs} \cup {pr[2] : pr \in pairs}

DoubledBlank(s, i) == IF CharAt(s, i) = " " THEN "  " ELSE CharAt(s, i)

\* a label with blanks around it and with its blanks doubled
Blanked(l) == "  " \o MapChars(DoubledBlank, l) \o " "

KvLabels ==
    LabelsOf(KvLabelPairs) \cup {Blanked(l) : l \in LabelsOf(KvLabelPairs)}
        \cup LabelsOf(GridLabelPairs) \cup OtherLabels

GridLabels ==
    LabelsOf(GridLabelPairs) \cup {Blanked(l) : l \in LabelsOf(GridLabelPairs)}
        \cup {"Diameter", "chokkei"} \cup OtherLabels

\* a tool page whose dimension table has the label l, and an NC tool page
\* whose component table has the column l
LabelDocuments ==
    {<<NcToolPageEN, KvPage(<< <<l, "7">> >>)>> : l \in KvLabels}
        \cup {<<GridPage(<< <<l, "Name">>, <<"Tool", "EM9">> >>)>> : l \in GridLabels}
        \cup {FullDocument}

\* the parser on pages with every label
InitLabels ==
    /\ pages \in LabelDocuments
    /\ pc = "start"
    /\ idx = 0
    /\ objs = <<>>
    /\ current = 0
    /\ records = <<>>
    /\ errors = <<>>
    /\ ParserOnly

SpecLabels == InitLabels /\ [][Next]_vars

\* the labels of the key cells of the dimension tables of a document
KvLabelsOf(ps) ==
    UNION {UNION {{t.rows[n][c] : c \in {k \in {1, 3} : k < Len(t.rows[n])}}
                  : n \in 1..Len(t.rows)}
           : t \in KvTablesOf(ps)}

\* the labels of the header cells of the bordered tables of a document
GridLabelsOf(ps) ==
    UNION {{t.rows[1][c] : c \in 1..Len(t.rows[1])}
           : t \in {u \in GridTablesOf(ps) : u.rows # <<>>}}

\* key is what the table of pairs makes of the label l: the one key of both
\* labels of its field, no label itself, when the whitespace-normalized l
\* is a label of a field as it is written; the whitespace-normalized l
\* when it is not
IsKeyOf(key, l, pairs, keyJA, keyEN) ==
    IF \E pr \in pairs : clean_text(l) \in {pr[1], pr[2]}
    THEN /\ key = keyJA /\ key = keyEN
         /\ \A pr \in pairs : key \notin {pr[1], pr[2]}
    ELSE key = clean_text(l)

\* the pair of labels of the field of l (of any field if l is no label)
PairOf(l, pairs) ==
    IF \E pr \in pairs : clean_text(l) \in {pr[1], pr[2]}
    THEN CHOOSE pr \in pairs : clean_text(l) \in {pr[1], pr[2]}
    ELSE CHOOSE pr \in pairs : TRUE

\* C21: the normalizers give the Japanese and the English label of a field
\* the same canonical key, and any other label, a label in another case
\* among them, back as it is once its whitespace is normalized
LabelsNormalized ==
    /\ \A l \in KvLabelsOf(pages) :
          IsKeyOf(norm_kv_key(l), l, KvLabelPairs,
                  norm_kv_key(PairOf(l, KvLabelPairs)[1]),
                  norm_kv_key(PairOf(l, KvLabelPairs)[2]))
    /\ \A l \in GridLabelsOf(pages) :
          IsKeyOf(norm_grid_header(l), l, GridLabelPairs,
                  norm_grid_header(PairOf(l, GridLabelPairs)[1]),
                  norm_grid_header(PairOf(l, GridLabelPairs)[2]))

\* a tool page with the Japanese label of the diameter, blanks around it,
\* has been read: the diameter is on the record
BlankedLabelRead ==
    /\ pc = "done"
    /\ Len(pages) = 2
    /\ KvLabelsOf(pages) = {"  chokkei "}
    /\ norm_kv_key("  chokkei ") = norm_kv_key("Diameter")
    /\ Len(records) = 1
    /\ objs[records[1]].tool_diameter_mm = "7"

\* a tool page with the label of the diameter in capitals has been read: the
\* label is kept as it is and the record has no diameter
CapitalLabelRead ==
    /\ pc = "done"
    /\ Len(pages) = 2
    /\ KvLabelsOf(pages) = {"DIAMETER"}
    /\ norm_kv_key("DIAMETER") = "DIAMETER"
    /\ Len(records) = 1
    /\ objs[records[1]].tool_diameter_mm = ""


(***************************************************************************)
(* Further properties of parse_nctools_html.                                *)
(***************************************************************************)
\* what a record takes from its NC tool (Assembly) page: number, name and
\* comment, the component fields, the derived overhangs, the image
AssemblyFields(rec) ==
    <<rec.nctool_no, rec.nctool_name, rec.nctool_comment,
      rec.holder_name, rec.holder_length, rec.tool_name, rec.tool_length,
      rec.extensions_str,
      rec.ext_overhang_mm, rec.tool_overhang_mm, rec.overhang_mm,
      rec.image_rel_src>>

\* C22: a page that is no NC tool (Assembly) page, visited while a record is
\* open, leaves that record open and changes none of the fields the record
\* took from its Assembly page
AssemblyFieldsFixed ==
    [][ (InLoop /\ current # 0 /\ ~M_nct(pages[idx]).ok)
        => /\ current' = current
           /\ AssemblyFields(objs'[current]) = AssemblyFields(objs[current])
      ]_vars

\* a tool page and a holder page have been merged into the record of the
\* Assembly page before them, which still has what that page gave it
MergedAfterAssembly ==
    /\ pc = "done"
    /\ Len(pages) = 3
    /\ M_nct(pages[1]).ok /\ M_tool(pages[2]).ok /\ M_holder(pages[3]).ok
    /\ Len(records) = 1
    /\ objs[records[1]].tool_page_name = "EM10"
    /\ objs[records[1]].holder_page_name = "H1"
    /\ objs[records[1]].holder_comment = "BT40"
    /\ AssemblyFields(objs[records[1]])
         = <<<<1>>, "T1", "rough", "H1", "80", "EM10", "40", "S1(L=25)",
             "25", "40", "65", "img/t1.png">>


\* the kinds of page whose heading patterns match the heading of page p
KindsOf(p) ==
    {k \in {"assembly", "tool", "holder", "subcomponent"} :
        \/ k = "assembly" /\ M_nct(p).ok
        \/ k = "tool" /\ M_tool(p).ok
        \/ k = "holder" /\ M_holder(p).ok
        \/ k = "subcomponent" /\ (M_sub(p).ok \/ M_ext(p).ok)}

\* C23: the heading of no page is matched by the patterns of two kinds
HeadingKindsExclusive ==
    \A i \in 1..Len(pages) : Cardinality(KindsOf(pages[i])) <= 1

\* the headings matched by the patterns of two kinds are those the code has:
\* an English NC tool heading, which holds 'Tool:', and a Japanese subholder
\* heading, which holds the Japanese 'Holder:'
HeadingKindsOverlap ==
    \A i \in 1..Len(pages) :
        \/ Cardinality(KindsOf(pages[i])) <= 1
        \/ KindsOf(pages[i]) = {"assembly", "tool"} /\ HasPrefix(H3Text(pages[i]), "NC-Tool:")
        \/ KindsOf(pages[i]) = {"holder", "subcomponent"}
             /\ HasPrefix(H3Text(pages[i]), "!|@&^~:")


\* C28: the warning list of the document stays empty, whatever the pages:
\* warnings are written on records only, and every record that was opened is
\* among the returned ones
DocumentWarningsEmpty ==
    /\ errors = <<>>
    /\ pc = "done" => \A j \in 1..Len(objs) : j \in Range(records)

\* a document whose first page comes before any record and whose record
\* carries warnings has been parsed: the list of the document is empty
WarningsOnRecordOnly ==
    /\ pc = "done"
    /\ Len(pages) = 3
    /\ ~M_nct(pages[1]).ok /\ M_tool(pages[1]).ok
    /\ M_nct(pages[2]).ok
    /\ M_ext(pages[3]).ok
    /\ Len(records) = 1
    /\ Len(objs[records[1]].warnings) >= 3
    /\ errors = <<>>


(***************************************************************************)
(* util.sanitize_filename, util.py 13-19.                                   *)
(***************************************************************************)
\* invalid = '<>:"/\\|?*'
INVALID_CHARS == "<>:\"/\\|?*"

\* out.replace(ch, "_") for every ch of invalid, at character i
InvalidReplaced(s, i) ==
    IF InClass(CharAt(s, i), INVALID_CHARS) THEN "_" ELSE CharAt(s, i)

\* the text after each statement is the one member of a set, so that it is
\* worked out once: replaced after the loop (16-17), stripped and out after
\* line 18
sanitize_filename(name) ==
    CHOOSE result \in
        { IF out = "" THEN "output" ELSE out :
            out \in { Strip(stripped) :
                stripped \in { RStripChars(replaced, ". ") :
                    replaced \in { MapChars(InvalidReplaced, name) } } } } : TRUE

(***************************************************************************)
(* The export functions of core.py: export_from_html (20-108) and           *)
(* export_report_f2_from_html (111-193).  call is the frame of one call:    *)
(* pc is "idle" before the call, "parse" before parse_nctools_html,         *)
(* "images" in the loop over the records (i the record to visit),           *)
(* "returned" and "raised" when the call is over.  tmpdir is the set of     *)
(* the files of the call in the temporary directory of the system, made     *)
(* the number of files it has created there.  The outcomes of the file      *)
(* system and of the image library are chosen freely.                       *)
(***************************************************************************)
EXPORT_FROM_HTML == "export_from_html"

EXPORT_REPORT_F2 == "export_report_f2_from_html"

\* the frame before the call of fn for the file stem.html, which exists or
\* not, with embed_images
CallOf(fn, stem, exists, embed_images) ==
    [pc |-> "idle", fn |-> fn, stem |-> stem, exists |-> exists,
     embed_images |-> embed_images, base_name |-> "", i |-> 0,
     temp_files |-> <<>>, tmpdir |-> {}, made |-> 0,
     progress |-> <<>>, errors_for_sheet |-> <<>>,
     exception |-> "", summary |-> <<>>]

\* the total of the progress reports of fn
TotalOf(fn) == IF fn = EXPORT_FROM_HTML THEN 4 ELSE 3

\* if progress: progress(done, total, msg)
Progress(c, done) == [c EXCEPT !.progress = Append(@, <<done, TotalOf(c.fn)>>)]

\* raise exc
Raise(c, exc) == [c EXCEPT !.pc = "raised", !.exception = exc]

\* core.py 32-40 and 123-128: export_from_html tests that the file exists
export_enter(c) ==
    IF c.fn = EXPORT_FROM_HTML /\ ~c.exists THEN Raise(c, "FileNotFoundError")
    ELSE [Progress(c, 0) EXCEPT !.pc = "parse"]

\* core.py 42-52 and 130-140 after parse_nctools_html has returned
export_parsed(c) ==
    [Progress(c, 1) EXCEPT !.pc = "images", !.i = 1,
                           !.base_name = sanitize_filename(c.stem),
                           !.errors_for_sheet = <<>>, !.temp_files = <<>>]

\* the row of record i on the error sheet: enumerate(records, start=2) in
\* export_from_html, start=1 in export_report_f2_from_html
RowOf(c) == IF c.fn = EXPORT_FROM_HTML THEN c.i + 1 ELSE c.i

\* images.make_temp_resized_png, images.py 22-61, for an image that exists:
\* [c, tmp_png, err].  outcome "saved": the file is created and written
\* (47, 56, 58); "failed": an exception before tempfile.mkstemp (37-45);
\* "save_failed": an exception of im.save after mkstemp has created the
\* file (56): line 61 returns None for the path
make_temp_resized_png(c, outcome) ==
    IF outcome = "failed" THEN [c |-> c, tmp_png |-> <<>>, err |-> <<"resize failed">>]
    ELSE LET file == c.made + 1
             made == [c EXCEPT !.made = file, !.tmpdir = @ \cup {file}]
         IN  IF outcome = "saved"
             THEN [c |-> made, tmp_png |-> <<file>>, err |-> <<>>]
             ELSE [c |-> made, tmp_png |-> <<>>, err |-> <<"resize failed">>]

\* images.resolve_image_path, images.py 11-19: found says whether the file
\* of the reference exists
resolve_image_path(image_rel_src, found) ==
    IF image_rel_src = "" THEN <<>>
    ELSE IF found THEN <<image_rel_src>> ELSE <<>>

\* errors_for_sheet.append((row, name, msg)) for every msg of msgs
SheetErrors(c, row, msgs) ==
    [c EXCEPT !.errors_for_sheet = @ \o [n \in 1..Len(msgs) |-> <<row, msgs[n]>>]]

\* core.py 55-72 and 142-159: the body of the loop for the record rec;
\* gives [c, rec]
export_image(c, rec, found, outcome) ==
    LET abs_img == resolve_image_path(rec.image_rel_src, found)
        rec1    == [rec EXCEPT !.image_abs_path = abs_img]
    IN  IF ~c.embed_images
        THEN [c |-> SheetErrors(c, RowOf(c), rec.warnings), rec |-> rec1]
        ELSE IF abs_img = <<>>
        THEN [c |-> SheetErrors(c, RowOf(c), <<"image not found">> \o rec.warnings),
              rec |-> rec1]
        ELSE LET made == make_temp_resized_png(c, outcome) IN
             [c |-> SheetErrors([made.c EXCEPT !.temp_files = @ \o made.tmp_png],
                                RowOf(c), made.err \o rec.warnings),
              rec |-> [rec1 EXCEPT !.image_cached_path = made.tmp_png]]

\* the keyword-only parameters of export_blocks_f2_xlsx,
\* export_xlsx_blocks.py 101-108
EXPORT_BLOCKS_F2_KEYWORDS == {"embed_images", "block_rows", "start_row"}

\* the keywords of the call of export_blocks_f2_xlsx, core.py 169-174
REPORT_CALL_KEYWORDS == {"embed_images", "lang"}

\* the parameters of write_xlsx that a keyword can name, export_xlsx.py 67-74
WRITE_XLSX_KEYWORDS ==
    {"records", "out_xlsx", "embed_images", "image_col_name", "image_cell_col",
     "row_height"}

\* the keywords of the call of write_xlsx, core.py 82
EXPORT_CALL_KEYWORDS == {"embed_images"}

\* a call with a keyword the function does not have raises TypeError
BindsKeywords(keywords, accepted) == keywords \subseteq accepted

\* the finally clause, core.py 83-88 and 175-180: every file of temp_files
\* is unlinked (an unlink that fails is passed over; here none fails)
unlink_temp_files(c) == [c EXCEPT !.tmpdir = @ \ Range(c.temp_files)]

\* core.py 74-108 and 161-193: after the loop.  outcome "ok": the workbook
\* is written; "write_fails": the writer raises; "sheet_fails": the
\* workbook cannot be loaded or saved again for its error sheet (91-95)
export_write(c, n_records, parse_errors, outcome) ==
    LET c1 == Progress(SheetErrors(c, 0, parse_errors), 2)
        c2 == unlink_temp_files(c1)
    IN  IF c.fn = EXPORT_REPORT_F2
        THEN IF ~BindsKeywords(REPORT_CALL_KEYWORDS, EXPORT_BLOCKS_F2_KEYWORDS)
             THEN Raise(c2, "TypeError")
             ELSE IF outcome # "ok" THEN Raise(c2, "OSError")
             ELSE [Progress(c2, 3) EXCEPT
                     !.pc = "returned",
                     !.summary = <<[records |-> n_records,
                                    errors |-> Len(c2.errors_for_sheet)]>>]
        ELSE IF ~BindsKeywords(EXPORT_CALL_KEYWORDS, WRITE_XLSX_KEYWORDS)
             THEN Raise(c2, "TypeError")
             ELSE IF outcome # "ok" THEN Raise(c2, "OSError")
             ELSE [Progress(c2, 4) EXCEPT
                     !.pc = "returned",
                     !.summary = <<[records |-> n_records,
                                    errors |-> Len(c2.errors_for_sheet)]>>]


\* the call is entered
ExportEnter ==
    /\ call.pc = "idle"
    /\ call' = export_enter(call)
    /\ UNCHANGED <<pages, pc, idx, objs, current, records, errors, gui>>

\* core.py 42 and 130: parse_nctools_html reads the file (FileNotFoundError
\* when there is none) and parses its pages; its exceptions leave the call
ExportParse ==
    /\ call.pc = "parse"
    /\ IF ~call.exists
       THEN /\ call' = Raise(call, "FileNotFoundError")
            /\ UNCHANGED <<pc, idx, objs, current, records, errors>>
       ELSE \E st \in {parse_nctools_html(pages)} :
            /\ call' = IF st.raised THEN Raise(call, "RuntimeError")
                       ELSE export_parsed(call)
            /\ objs' = st.objs
            /\ current' = st.current
            /\ records' = st.records
            /\ errors' = st.errors
            /\ pc' = IF st.raised THEN "raised" ELSE "done"
            /\ idx' = Len(pages) + 1
    /\ UNCHANGED <<pages, gui>>

\* one turn of the loop over the records; the choices that the turn does
\* not look at are fixed
ExportImage ==
    /\ call.pc = "images"
    /\ call.i <= Len(records)
    /\ \E found \in BOOLEAN, outcome \in {"saved", "failed", "save_failed"} :
         LET rec  == objs[records[call.i]]
             step == export_image(call, rec, found, outcome)
         IN  /\ rec.image_rel_src = "" => ~found
             /\ ~(call.embed_images /\ found) => outcome = "saved"
             /\ call' = [step.c EXCEPT !.i = @ + 1]
             /\ objs' = [objs EXCEPT ![records[call.i]] = step.rec]
    /\ UNCHANGED <<pages, pc, idx, current, records, errors, gui>>

\* the workbook is written, the temporary files are deleted, the call ends
ExportWrite ==
    /\ call.pc = "images"
    /\ call.i > Len(records)
    /\ \E outcome \in {"ok", "write_fails", "sheet_fails"} :
         /\ (call.fn = EXPORT_REPORT_F2 => outcome # "sheet_fails")
         /\ call' = export_write(call, Len(records), errors, outcome)
    /\ UNCHANGED <<pages, pc, idx, objs, current, records, errors, gui>>

NextExport == ExportEnter \/ ExportParse \/ ExportImage \/ ExportWrite

\* the documents exported: NC tool pages with and without an image, and
\* the document without pages
ExportDocuments == SeqsUpTo({NcToolPageEN, NcToolPageBare}, MaxPages)

\* the calls made: both functions, on a file that exists or not, with and
\* without images
ExportCalls ==
    {CallOf(fn, stem, exists, embed_images) :
       fn \in {EXPORT_FROM_HTML, EXPORT_REPORT_F2}, stem \in {"report", "<T1>. "},
       exists \in BOOLEAN, embed_images \in BOOLEAN}

InitExport ==
    /\ pages \in ExportDocuments
    /\ pc = "start"
    /\ idx = 0
    /\ objs = <<>>
    /\ current = 0
    /\ records = <<>>
    /\ errors = <<>>
    /\ call \in ExportCalls
    /\ gui = NoGui

SpecExport == InitExport /\ [][NextExport]_vars

(***************************************************************************)
(* The names of the output folder and of the workbook.                      *)
(***************************************************************************)
\* a letter, the characters sanitize_filename strips, an invalid character
NameChars == {"a", ".", " ", "\t", "<"}

Stems == TextsUpTo(NameChars, MaxLen) \ {""}

InitNames ==
    /\ pages = <<NcToolPageBare>>
    /\ pc = "start"
    /\ idx = 0
    /\ objs = <<>>
    /\ current = 0
    /\ records = <<>>
    /\ errors = <<>>
    /\ call \in {CallOf(fn, stem, TRUE, FALSE) :
                   fn \in {EXPORT_FROM_HTML, EXPORT_REPORT_F2}, stem \in Stems}
    /\ gui = NoGui

SpecNames == InitNames /\ [][NextExport]_vars


(***************************************************************************)
(* Properties of the export functions.                                      *)
(***************************************************************************)
Ended == call.pc \in {"returned", "raised"}

LastProgress == call.progress[Len(call.progress)]

\* C24: export_report_f2_from_html, called on an existing file with at
\* least one page, returns a summary whose 'records' is the number of the
\* records parsed, after it has reported the progress (3, 3).
ReportCompletes ==
    (Ended /\ call.fn = EXPORT_REPORT_F2 /\ call.exists /\ pages # <<>>)
        => /\ call.pc = "returned"
           /\ call.summary # <<>>
           /\ call.summary[1].records = Len(records)
           /\ LastProgress = <<3, 3>>

\* what the code does instead: every such call ends with the TypeError of
\* the call of export_blocks_f2_xlsx, its last progress report being (2, 3)
ReportRaisesTypeError ==
    (Ended /\ call.fn = EXPORT_REPORT_F2 /\ call.exists /\ pages # <<>>)
        => /\ call.pc = "raised"
           /\ call.exception = "TypeError"
           /\ call.summary = <<>>
           /\ LastProgress = <<2, 3>>

\* C27: when the call has returned or raised, none of the temporary files
\* it has created exists any more.
TempFilesDeleted == Ended => call.tmpdir = {}

\* the files that make_temp_resized_png has returned are deleted; the ones
\* left are files for which it has returned no path
ReturnedTempFilesDeleted ==
    Ended => /\ call.tmpdir \cap Range(call.temp_files) = {}
             /\ Cardinality(call.tmpdir) = call.made - Len(call.temp_files)

\* C29: the name sanitize_filename returns is not empty, holds none of the
\* characters < > : " / \ | ? * and does not end with a dot or with a
\* whitespace character.
SanitizedNameValid ==
    call.pc = "images"
        => LET out == call.base_name IN
           /\ out # ""
           /\ \A n \in 1..Len(out) : ~InClass(CharAt(out, n), INVALID_CHARS)
           /\ ~InClass(CharAt(out, Len(out)), "." \o WS_CHARS)

\* what the code gives: a name that is not empty, holds no invalid character
\* and neither begins nor ends with a whitespace character
SanitizedNameStripped ==
    call.pc = "images"
        => LET out == call.base_name IN
           /\ out # ""
           /\ \A n \in 1..Len(out) : ~InClass(CharAt(out, n), INVALID_CHARS)
           /\ ~InClass(CharAt(out, 1), WS_CHARS)
           /\ ~InClass(CharAt(out, Len(out)), WS_CHARS)


(***************************************************************************)
(* The window of apps/gui.py.  gui holds the state that main() keeps:       *)
(* the file html_var names (whether it exists, and its pages), the text of  *)
(* maxpx_var, busy["flag"], the queue q, the value of the progress bar, the *)
(* message box shown last, and the worker threads started so far.  A thread *)
(* that runs holds the frame c of its call of export_report_f2_from_html,   *)
(* its file and what the parser has returned; a thread that has ended holds *)
(* nothing.  posted is the history of the kinds of the messages the thread  *)
(* has put into q, ended how its call was left.  run_export and pump_queue  *)
(* run in the main loop of Tk, one at a time; the steps of a worker come    *)
(* between them.                                                            *)
(***************************************************************************)
\* the most exports started in one run of the window
MaxExports == 2

\* what html_var names: nothing, a report with its pages, or the working
\* directory (the empty text of the field).  parsed is what
\* parse_nctools_html gives on the pages, a function of the file
HtmlFile(doc) ==
    [exists |-> TRUE, isfile |-> TRUE, pages |-> doc,
     parsed |-> parse_nctools_html(doc)]

NoFile == [HtmlFile(<<>>) EXCEPT !.exists = FALSE, !.isfile = FALSE]

WorkingDir == [HtmlFile(<<>>) EXCEPT !.isfile = FALSE]

\* gui.py 27, 53 and 68-69: html_var starts empty, maxpx_var as "320"
GuiOpen ==
    [open |-> TRUE, html |-> WorkingDir, maxpx |-> "320", busy |-> FALSE,
     q |-> <<>>, prog |-> 0, box |-> "", workers |-> <<>>]

\* int(maxpx_var.get()), gui.py 104: <<value>>, or <<>> for ValueError
int_of(text) ==
    LET t      == Strip(text)
        signed == t # "" /\ CharAt(t, 1) \in {"-", "+"}
        digits == IF signed THEN SubSeq(t, 2, Len(t)) ELSE t
    IN  IF digits = "" \/ \E n \in 1..Len(digits) : ~InClass(CharAt(digits, n), DIGIT_CHARS)
        THEN <<>>
        ELSE IF signed /\ CharAt(t, 1) = "-" THEN <<0 - DigitsToInt(digits)>>
        ELSE <<DigitsToInt(digits)>>

\* gui.py 117-131 at the start of the thread: the frame of the call
\* export_report_f2_from_html(..., embed_images=True, ...) on html
NewWorker(html) ==
    [pc |-> "run", c |-> CallOf(EXPORT_REPORT_F2, "report", TRUE, TRUE),
     html |-> html, objs |-> <<>>, records |-> <<>>, errors |-> <<>>,
     posted |-> <<>>]

\* gui.py 103-109: max_px is a positive integer
MaxPxValid(text) == int_of(text) # <<>> /\ int_of(text)[1] > 0

\* run_export without the test of busy["flag"]
run_export_unguarded(g) ==
    IF ~g.html.exists THEN [g EXCEPT !.box = "input error"]
    ELSE IF ~MaxPxValid(g.maxpx) THEN [g EXCEPT !.box = "input error"]
    ELSE [g EXCEPT !.busy = TRUE, !.prog = 0,
                   !.workers = Append(@, NewWorker(g.html))]

\* run_export, gui.py 93-133, in the window g
run_export(g) ==
    IF g.busy THEN [g EXCEPT !.box = "busy"]
    ELSE IF ~g.html.exists THEN [g EXCEPT !.box = "input error"]
    ELSE IF ~MaxPxValid(g.maxpx) THEN [g EXCEPT !.box = "input error"]
    ELSE [g EXCEPT !.busy = TRUE, !.prog = 0,
                   !.workers = Append(@, NewWorker(g.html))]

\* pump_queue that leaves busy["flag"] as it is
handle_message_keeps_busy(g, msg) ==
    IF msg[1] = "progress" THEN [g EXCEPT !.prog = msg[2]]
    ELSE [g EXCEPT !.box = msg[1]]

\* gui.py 75-87: one message taken from the queue
handle_message(g, msg) ==
    IF msg[1] = "progress" THEN [g EXCEPT !.prog = msg[2]]
    ELSE IF msg[1] = "done" THEN [g EXCEPT !.busy = FALSE, !.box = "done"]
    ELSE IF msg[1] = "error" THEN [g EXCEPT !.busy = FALSE, !.box = "error"]
    ELSE g

\* gui.py 71-89: the queue is emptied, message by message
RECURSIVE pump_queue(_)
pump_queue(g) ==
    IF g.q = <<>> THEN g
    ELSE pump_queue(handle_message([g EXCEPT !.q = Tail(@)], Head(g.q)))

\* the progress callback, gui.py 119-120: the reports that the step from
\* frame c0 to frame c1 of the call has made, as messages
ProgressMessages(c0, c1) ==
    [n \in 1..(Len(c1.progress) - Len(c0.progress)) |->
        <<"progress", c1.progress[Len(c0.progress) + n][1],
                      c1.progress[Len(c0.progress) + n][2]>>]

\* q.put(m) by the thread w for every message m of msgs
Puts(g, k, w, msgs) ==
    [g EXCEPT !.q = @ \o msgs,
              !.workers[k] = [w EXCEPT !.posted = @ \o [n \in 1..Len(msgs) |-> msgs[n][1]]]]

\* a worker that puts no message when the export has raised
worker_end_silent(c) ==
    IF c.pc = "returned" THEN << <<"done", 1, 1>> >> ELSE <<>>

\* gui.py 129-131: the message at the end of the thread
worker_end(c) ==
    IF c.pc = "returned" THEN << <<"done", 1, 1>> >> ELSE << <<"error", 0, 1>> >>

Running(k) == k <= Len(gui.workers) /\ gui.workers[k].pc = "run"

\* the files that can be chosen and the texts typed into the max_px field
HtmlChoices == {NoFile, WorkingDir, HtmlFile(<<NcToolPageEN>>)}

MaxPxTexts == {"320", "-5", "px"}

\* the user chooses a file or types a size, gui.py 30-44
EditFields ==
    /\ gui.open
    /\ \E html \in HtmlChoices, maxpx \in MaxPxTexts :
         gui' = [gui EXCEPT !.html = html, !.maxpx = maxpx]
    /\ UNCHANGED <<pages, pc, idx, objs, current, records, errors, call>>

\* the button
RunExport ==
    /\ gui.open
    /\ Len(run_export(gui).workers) <= MaxExports
    /\ gui' = run_export(gui)
    /\ UNCHANGED <<pages, pc, idx, objs, current, records, errors, call>>

\* the timer of root.after(100, pump_queue)
PumpQueue ==
    /\ gui.open
    /\ gui' = pump_queue(gui)
    /\ UNCHANGED <<pages, pc, idx, objs, current, records, errors, call>>

\* the steps of thread k in export_report_f2_from_html
WorkerEnter(k) ==
    /\ Running(k)
    /\ LET w == gui.workers[k]
           c == export_enter(w.c)
       IN  /\ w.c.pc = "idle"
           /\ gui' = Puts(gui, k, [w EXCEPT !.c = c], ProgressMessages(w.c, c))
    /\ UNCHANGED <<pages, pc, idx, objs, current, records, errors, call>>

\* the thread w after parse_nctools_html has read its file and returned or
\* raised with the state st: [w, msgs], msgs the messages put
worker_parsed(w, st) ==
    LET c == IF ~w.html.isfile THEN Raise(w.c, "OSError")
             ELSE IF st.raised THEN Raise(w.c, "RuntimeError")
             ELSE export_parsed(w.c)
    IN  [w |-> [w EXCEPT !.c = c, !.objs = st.objs, !.records = st.records,
                         !.errors = st.errors],
         msgs |-> ProgressMessages(w.c, c)]

WorkerParse(k) ==
    /\ Running(k)
    /\ gui.workers[k].c.pc = "parse"
    /\ LET done == worker_parsed(gui.workers[k], gui.workers[k].html.parsed)
       IN  gui' = Puts(gui, k, done.w, done.msgs)
    /\ UNCHANGED <<pages, pc, idx, objs, current, records, errors, call>>

WorkerImage(k) ==
    /\ Running(k)
    /\ gui.workers[k].c.pc = "images"
    /\ gui.workers[k].c.i <= Len(gui.workers[k].records)
    /\ \E found \in BOOLEAN, outcome \in {"saved", "failed", "save_failed"} :
         LET w    == gui.workers[k]
             r    == w.records[w.c.i]
             step == export_image(w.c, w.objs[r], found, outcome)
         IN  /\ w.objs[r].image_rel_src = "" => ~found
             /\ ~found => outcome = "saved"
             /\ gui' = Puts(gui, k,
                            [w EXCEPT !.c = [step.c EXCEPT !.i = @ + 1],
                                      !.objs[r] = step.rec],
                            <<>>)
    /\ UNCHANGED <<pages, pc, idx, objs, current, records, errors, call>>

WorkerWrite(k) ==
    /\ Running(k)
    /\ gui.workers[k].c.pc = "images"
    /\ gui.workers[k].c.i > Len(gui.workers[k].records)
    /\ \E outcome \in {"ok", "write_fails"} :
         LET w == gui.workers[k]
             c == export_write(w.c, Len(w.records), w.errors, outcome)
         IN  gui' = Puts(gui, k, [w EXCEPT !.c = c], ProgressMessages(w.c, c))
    /\ UNCHANGED <<pages, pc, idx, objs, current, records, errors, call>>

\* the call has returned or raised: the last message, and the thread ends
WorkerEnd(k) ==
    /\ Running(k)
    /\ gui.workers[k].c.pc \in {"returned", "raised"}
    /\ LET w    == gui.workers[k]
           msgs == worker_end(w.c)
       IN  gui' = Puts(gui, k,
                       [pc |-> "finished", ended |-> w.c.pc, posted |-> w.posted],
                       msgs)
    /\ UNCHANGED <<pages, pc, idx, objs, current, records, errors, call>>

Worker(k) ==
    WorkerEnter(k) \/ WorkerParse(k) \/ WorkerImage(k) \/ WorkerWrite(k) \/ WorkerEnd(k)

NextGui == EditFields \/ RunExport \/ PumpQueue \/ \E k \in 1..MaxExports : Worker(k)

InitGui ==
    /\ pages = <<>>
    /\ pc = "start"
    /\ idx = 0
    /\ objs = <<>>
    /\ current = 0
    /\ records = <<>>
    /\ errors = <<>>
    /\ call = NoCall
    /\ gui = GuiOpen

SpecGui == InitGui /\ [][NextGui]_vars

\* the timer fires again and again, and a thread that can run does
FairGui ==
    /\ WF_vars(PumpQueue)
    /\ \A k \in 1..MaxExports : WF_vars(Worker(k))

SpecGuiLive == InitGui /\ [][NextGui]_vars /\ FairGui


(***************************************************************************)
(* Properties of the window.                                                *)
(***************************************************************************)
\* the threads that have not ended
ActiveWorkers == {k \in 1..Len(gui.workers) : gui.workers[k].pc = "run"}

IsTerminal(kind) == kind \in {"done", "error"}

\* the messages 'done' and 'error' waiting in the queue
TerminalsQueued == {n \in 1..Len(gui.q) : IsTerminal(gui.q[n][1])}

\* at most one thread runs, and busy is set while a thread runs or its last
\* message waits in the queue
OneWorkerActive ==
    /\ Cardinality(ActiveWorkers) <= 1
    /\ (ActiveWorkers # {} \/ TerminalsQueued # {}) => gui.busy

\* a thread is started only by a step from a window that is not busy and
\* whose file exists and whose max_px is a positive integer, and one thread
\* at a time
StartsOnlyWhenAccepted ==
    Len(gui'.workers) # Len(gui.workers)
        => /\ ~gui.busy
           /\ gui.html.exists
           /\ MaxPxValid(gui.maxpx)
           /\ Len(gui'.workers) = Len(gui.workers) + 1
           /\ gui'.busy

\* C25: at most one export worker is active at any time: busy is set from
\* the start of a worker until pump_queue has handled its done or error
\* message, and run_export called while busy is set, or with a missing file
\* or a max_px that is no positive integer, starts no worker.
OneWorkerAtATime == []OneWorkerActive /\ [][StartsOnlyWhenAccepted]_vars

\* a second export was asked for while the first ran, and was refused
SecondExportRefused ==
    /\ gui.busy
    /\ gui.box = "busy"
    /\ Cardinality(ActiveWorkers) = 1
    /\ Len(gui.workers) = 1
    /\ gui.html.exists /\ MaxPxValid(gui.maxpx)


\* the messages a thread has put: progress messages only while it runs;
\* when it has ended exactly one done or error message, the last one, done
\* when its call has returned and error when it has raised
PostedOnce ==
    \A k \in 1..Len(gui.workers) :
      LET w == gui.workers[k]
          p == w.posted
      IN  IF w.pc = "run" THEN \A n \in 1..Len(p) : p[n] = "progress"
          ELSE /\ p # <<>>
               /\ \A n \in 1..(Len(p) - 1) : p[n] = "progress"
               /\ p[Len(p)] = (IF w.ended = "returned" THEN "done" ELSE "error")

\* a turn of pump_queue that takes a done or error message leaves busy clear
HandledClearsBusy ==
    (TerminalsQueued # {} /\ Len(gui'.q) < Len(gui.q)) => ~gui'.busy

\* every thread started ends
EveryWorkerEnds ==
    \A k \in 1..MaxExports :
      (Len(gui.workers) >= k)
          ~> (Len(gui.workers) >= k /\ gui.workers[k].pc = "finished")

\* C26: every worker started eventually puts exactly one done or error
\* message into the queue, after all its progress messages; pump_queue
\* handling it clears busy; so busy does not stay set for ever.
WorkerEndsAndBusyClears ==
    /\ []PostedOnce
    /\ [][HandledClearsBusy]_vars
    /\ EveryWorkerEnds
    /\ gui.busy ~> ~gui.busy

\* the error message of a thread whose three progress messages came first
\* has been handled
ErrorHandledAfterProgress ==
    /\ Len(gui.workers) = 1
    /\ gui.workers[1].pc = "finished"
    /\ gui.workers[1].posted = <<"progress", "progress", "progress", "error">>
    /\ gui.q = <<>>
    /\ gui.box = "error"
    /\ ~gui.busy

=============================================================================
